---- MODULE Spec2Model ----
(***************************************************************************)
(* Model of the event-venue messaging game (alebartos/Applicazioni).       *)
(*                                                                         *)
(* Two servers are modelled:                                               *)
(*  - the key-value server (src/src/supabase/functions/server/index.tsx):  *)
(*    reaction ledger, challenge engine, game session;                     *)
(*  - the Express/Prisma backend (src/backend/src/index.ts): its           *)
(*    /api/add-reaction handler.                                           *)
(*                                                                         *)
(* The clock `now` counts minutes from 1 (epoch time is positive); a        *)
(* timestamp is the value of `now` when the handler ran.  Every kv.get,    *)
(* kv.set and kv.getByPrefix is one atomic store operation; a handler is   *)
(* one action in the sequential specifications and one action per await in *)
(* the concurrent ones.                                                    *)
(***************************************************************************)
EXTENDS Integers, Sequences, FiniteSets, TLC

VARIABLES
    msgs,         \* kv "message:<id>"        : message id -> message record
    nextMsg,      \* number of message ids handed out so far
    tableCodes,   \* kv "table:<id>:code"     : the table ids that have a code
    gameStatus,   \* kv "game:status"
    challenges,   \* kv "challenge:<id>"      : challenge id -> challenge record
    activeList,   \* kv "challenges:active"   : sequence of challenge ids
    badges,       \* kv "table:<id>:badges"   : table id -> sequence of awards
    users,        \* kv "table:<id>:users"    : table id -> sequence of users
    gameAt,       \* game:started_at, game:paused_at, game:ended_at (minutes)
    now,          \* wall clock, in minutes
    bmsgs,        \* backend Message rows     : message id -> row
    btables,      \* backend Table rows       : the table ids
    bstatus,      \* backend GameSession.status
    bcodes,       \* backend Table.code, Staff.tableCode, Admin.secretTableCode
    auth,         \* backend Staff.permissions, Staff.isActive; the JWTs issued
    reqs,         \* requests in flight       : request slot -> handler frame
    last,         \* the last completed handler call and its response
    twice         \* recorder of the call before the last one (history)

chVars == <<challenges, activeList, badges>>
kvVars == <<msgs, nextMsg, tableCodes, gameStatus, challenges, activeList, badges>>
backendVars == <<bmsgs, btables, bstatus, bcodes>>
vars == <<msgs, nextMsg, tableCodes, gameStatus, challenges, activeList,
          badges, users, gameAt, now, bmsgs, btables, bstatus, bcodes, auth, reqs,
          last, twice>>

----------------------------------------------------------------------------
(* Bounds of the model *)

MaxLedgerMsgs == 1      \* messages sent in the ledger specifications
MaxBackendMsgs == 1     \* rows of the backend Message table
MaxReqs == 2            \* requests in flight at the same time
MaxChalMsgs == 1        \* messages sent in the challenge specifications
MaxChallenges == 1      \* challenges created
MaxTime == 3            \* last minute of the clock
MaxDuration == 1        \* longest durationMinutes tried
MaxPermuted == 4        \* most stored messages for which every order is tried
MaxPerTable == 6        \* messages per table in the speed specification
MaxScored == 5          \* messages per table in a most_messages challenge
MaxAwards == 1          \* badge records of a challenge at which writes stop failing
MaxBoardMsgs == 2       \* messages per table in the leaderboard specification
MaxBoardTables == 11    \* tables in the leaderboard specification
MaxScoreMsgs == 2       \* messages sent while the leaderboard is watched
MaxInvalidMsgs == 1     \* messages stored while invalid reactions are tried
MaxCreated == 2         \* challenges created while invalid requests are tried
MaxGateMsgs == 2        \* messages sent while the game is started and stopped
MaxListed == 3          \* challenges in the active-id list specification
MaxClock == 16          \* last minute of the clock in the presence specification
MaxResetMsgs == 1       \* messages sent before a reset
MaxRetries == 3         \* the retries argument of fetchWithRetry
MaxLateMsgs == 2        \* messages stored when an expired challenge is read
MaxSendActions == 2     \* send actions of the user in the client
MaxOptimal == 2         \* messages per table before a counted resolution
MaxStaff == 2           \* staff members created
MaxTokens == 2          \* tokens held by clients at one time
MaxReacted == 2         \* messages per table in a most_reactions challenge

(* Identifiers *)

Tables == {"A1", "B2"}
ADMIN == "ADMIN"
NULL == "null"

validReactions == <<"heart", "thumbsup", "fire", "laugh">>
allReactionTypes == <<"heart", "thumbsup", "fire", "laugh">>
Kinds == {validReactions[i] : i \in 1..Len(validReactions)}

Max(a, b) == IF a >= b THEN a ELSE b

ZeroReactions == [k \in Kinds |-> 0]

NoCall == [op |-> "none", status |-> 0]

\* The codes of the backend once the admin account exists: the admin's
\* secret code is the default one, the tables ids have the join codes the
\* admin types in, there is no staff.
DefaultAdminCode == "001"
JoinCode == [A1 |-> "ALPHA01", B2 |-> "BRAVO02"]
CodesOf(ids) ==
    [table |-> [t \in ids |-> JoinCode[t]], staff |-> <<>>,
     admin |-> DefaultAdminCode]

\* No user list stored: kv.get(...) || [] reads it as the empty list.
NoUsers == [t \in Tables |-> <<>>]

\* The keys game:started_at, game:paused_at and game:ended_at, in minutes;
\* Absent (the clock starts at minute 1) when the key is not in the store.
Absent == 0
NoGameAt == [started_at |-> Absent, paused_at |-> Absent, ended_at |-> Absent]

\* No staff row and no token issued.
NoAuth == [permissions |-> <<>>, isActive |-> <<>>, tokens |-> {}]

\* The keys of a store whose game has the given status: a game that was
\* started in minute 1, or one that was never started.
GameAtFor(status) ==
    IF status = "not_started" THEN NoGameAt
    ELSE [NoGameAt EXCEPT !.started_at = 1]

\* The recorder `twice` is filled, while switched on, when an accepted
\* add-reaction call repeats the arguments of the accepted add-reaction call
\* immediately before it: it then holds those arguments, and the tally of
\* the message and the markers of the table before the first of the two
\* calls.  Any other call clears it.
TwiceOff == [on |-> FALSE, call |-> <<>>, before |-> <<>>, held |-> {}]
TwiceOn == [on |-> TRUE, call |-> <<>>, before |-> <<>>, held |-> {}]
Forget(h) == IF h.on THEN TwiceOn ELSE h

----------------------------------------------------------------------------
(* Key-value server: messages *)

\* The message object built by send-message.  It carries no reactions and
\* no reactedTables field: add-reaction creates them on first use.
MessageAt(id, fromTable, toTable, timestamp) ==
    [id |-> id, fromTable |-> fromTable, toTable |-> toTable,
     timestamp |-> timestamp,
     hasReactions |-> FALSE, reactions |-> ZeroReactions,
     hasReactedTables |-> FALSE, reactedTables |-> {}]

NewMessage(id, fromTable, toTable) == MessageAt(id, fromTable, toTable, now)

\* The four counters a viewer sees (an absent reactions field reads as 0).
Tally(message) == IF message.hasReactions THEN message.reactions ELSE ZeroReactions

\* The kinds for which table t holds a marker on the message.
Markers(message, t) == {k \in Kinds : <<t, k>> \in message.reactedTables}

\* The first kind in allReactionTypes whose marker t holds, or NULL.
RECURSIVE FirstMarker(_, _, _)
FirstMarker(message, tableNumber, i) ==
    IF i > Len(allReactionTypes) THEN NULL
    ELSE IF <<tableNumber, allReactionTypes[i]>> \in message.reactedTables
         THEN allReactionTypes[i]
         ELSE FirstMarker(message, tableNumber, i + 1)

UserReaction(message, tableNumber) == FirstMarker(message, tableNumber, 1)

\* The loop over allReactionTypes: every marker of the table is removed and
\* its counter decremented (floor 0); previousReaction is the last one found.
RECURSIVE RemovePrevious(_, _, _)
RemovePrevious(st, tableNumber, i) ==
    IF i > Len(allReactionTypes) THEN st
    ELSE LET reactionType == allReactionTypes[i]
             key == <<tableNumber, reactionType>>
         IN IF key \in st.reactedTables
            THEN RemovePrevious(
                   [reactions |-> [st.reactions EXCEPT
                                     ![reactionType] = Max(0, @ - 1)],
                    reactedTables |-> st.reactedTables \ {key},
                    previousReaction |-> reactionType],
                   tableNumber, i + 1)
            ELSE RemovePrevious(st, tableNumber, i + 1)

\* A plausible slip: only the requested kind is toggled, other markers of
\* the table are left in place.
ApplyReactionStacking(message, tableNumber, reaction) ==
    LET key == <<tableNumber, reaction>>
        cur == Tally(message)
    IN IF key \in message.reactedTables
       THEN [message EXCEPT !.hasReactions = TRUE, !.hasReactedTables = TRUE,
                            !.reactions = [cur EXCEPT ![reaction] = Max(0, @ - 1)],
                            !.reactedTables = @ \ {key}]
       ELSE [message EXCEPT !.hasReactions = TRUE, !.hasReactedTables = TRUE,
                            !.reactions = [cur EXCEPT ![reaction] = @ + 1],
                            !.reactedTables = @ \cup {key}]

\* A plausible slip: the previous reaction is removed but the new one is
\* always added, so clicking the same reaction again does not toggle it off.
ApplyReactionNoToggleOff(message, tableNumber, reaction) ==
    LET removed == RemovePrevious(
                     [reactions |-> Tally(message),
                      reactedTables |-> message.reactedTables,
                      previousReaction |-> NULL], tableNumber, 1)
    IN [message EXCEPT !.hasReactions = TRUE, !.hasReactedTables = TRUE,
                       !.reactions = [removed.reactions EXCEPT ![reaction] = @ + 1],
                       !.reactedTables = removed.reactedTables
                                           \cup {<<tableNumber, reaction>>}]

\* A plausible slip: on a switch the previous marker is removed but its
\* counter is not decremented.
ApplyReactionKeepCount(message, tableNumber, reaction) ==
    LET removed == RemovePrevious(
                     [reactions |-> Tally(message),
                      reactedTables |-> message.reactedTables,
                      previousReaction |-> NULL], tableNumber, 1)
    IN IF removed.previousReaction # reaction
       THEN [message EXCEPT !.hasReactions = TRUE, !.hasReactedTables = TRUE,
                            !.reactions = [Tally(message) EXCEPT ![reaction] = @ + 1],
                            !.reactedTables = removed.reactedTables
                                                \cup {<<tableNumber, reaction>>}]
       ELSE [message EXCEPT !.hasReactions = TRUE, !.hasReactedTables = TRUE,
                            !.reactions = removed.reactions,
                            !.reactedTables = removed.reactedTables]

\* The message object add-reaction saves: reactions and reactedTables are
\* initialised, the table's previous markers removed, and the new reaction
\* added unless it is the one just removed.
ApplyReaction(message, tableNumber, reaction) ==
    LET removed == RemovePrevious(
                     [reactions |-> Tally(message),
                      reactedTables |-> message.reactedTables,
                      previousReaction |-> NULL], tableNumber, 1)
        added == IF removed.previousReaction # reaction
                 THEN [reactions |-> [removed.reactions EXCEPT
                                        ![reaction] = @ + 1],
                       reactedTables |-> removed.reactedTables
                                           \cup {<<tableNumber, reaction>>}]
                 ELSE [reactions |-> removed.reactions,
                       reactedTables |-> removed.reactedTables]
    IN [message EXCEPT !.hasReactions = TRUE, !.hasReactedTables = TRUE,
                       !.reactions = added.reactions,
                       !.reactedTables = added.reactedTables]

----------------------------------------------------------------------------
(* Key-value server: handlers run one at a time *)

\* POST admin/create-table-code
CreateTableCode(tableId) ==
    /\ tableId \notin tableCodes
    /\ tableCodes' = tableCodes \cup {tableId}
    /\ users' = [users EXCEPT ![tableId] = <<>>]
    /\ last' = [op |-> "create-table-code", status |-> 200, table |-> tableId]
    /\ UNCHANGED <<msgs, nextMsg, gameStatus, chVars, now, backendVars, reqs>>
    /\ UNCHANGED gameAt
    /\ UNCHANGED auth
    /\ twice' = Forget(twice)

\* DELETE admin/delete-table/:tableNumber: the code (and the users) of the
\* table are deleted; its messages and its badge list are not touched.
DeleteTable(tableId) ==
    /\ tableCodes' = tableCodes \ {tableId}
    /\ users' = [users EXCEPT ![tableId] = <<>>]
    /\ last' = [op |-> "delete-table", status |-> 200, table |-> tableId]
    /\ UNCHANGED gameAt
    /\ UNCHANGED auth
    /\ twice' = Forget(twice)
    /\ UNCHANGED <<msgs, nextMsg, gameStatus, chVars, now, backendVars, reqs>>

\* POST admin/reset-game: status, messages and the user lists of the tables
\* of tables:list (the tables that have a code) are cleared;
\* challenges, the active list and badges are not touched.
ResetGame ==
    /\ gameStatus' = "not_started"
    /\ msgs' = <<>>
    /\ users' = [t \in Tables |-> IF t \in tableCodes THEN <<>> ELSE users[t]]
    /\ last' = [op |-> "reset-game", status |-> 200]
    /\ gameAt' = NoGameAt
    /\ UNCHANGED auth
    /\ twice' = Forget(twice)
    /\ UNCHANGED <<nextMsg, tableCodes, chVars, now, backendVars, reqs>>

\* POST admin/start-game
StartGame ==
    /\ gameStatus # "active"
    /\ gameStatus' = "active"
    /\ last' = [op |-> "start-game", status |-> 200]
    /\ UNCHANGED <<msgs, nextMsg, tableCodes, chVars, now, backendVars, reqs>>
    /\ UNCHANGED users
    /\ gameAt' = [gameAt EXCEPT !.started_at = now, !.paused_at = Absent]
    /\ UNCHANGED auth
    /\ twice' = Forget(twice)

\* A plausible slip: only an ended game refuses messages.
SendMessageUnlessEnded(fromTable, toTable) ==
    /\ fromTable # toTable
    /\ toTable \in tableCodes
    /\ gameStatus # "ended"
    /\ nextMsg' = nextMsg + 1
    /\ msgs' = [id \in DOMAIN msgs \cup {nextMsg + 1} |->
                  IF id = nextMsg + 1
                  THEN NewMessage(id, fromTable, toTable)
                  ELSE msgs[id]]
    /\ last' = [op |-> "send-message", status |-> 200, m |-> nextMsg + 1,
                table |-> fromTable]
    /\ UNCHANGED <<tableCodes, gameStatus, chVars, now, backendVars, reqs>>
    /\ UNCHANGED users
    /\ UNCHANGED gameAt
    /\ UNCHANGED auth
    /\ twice' = Forget(twice)

\* POST send-message, accepted: the destination table exists, the sender is
\* another table and the game is active.
SendMessage(fromTable, toTable) ==
    /\ fromTable # toTable
    /\ toTable \in tableCodes
    /\ gameStatus = "active"
    /\ nextMsg' = nextMsg + 1
    /\ msgs' = [id \in DOMAIN msgs \cup {nextMsg + 1} |->
                  IF id = nextMsg + 1
                  THEN NewMessage(id, fromTable, toTable)
                  ELSE msgs[id]]
    /\ last' = [op |-> "send-message", status |-> 200, m |-> nextMsg + 1,
                table |-> fromTable]
    /\ UNCHANGED <<tableCodes, gameStatus, chVars, now, backendVars, reqs>>
    /\ UNCHANGED users
    /\ UNCHANGED gameAt
    /\ UNCHANGED auth
    /\ twice' = Forget(twice)

\* POST add-reaction on an existing message with a valid reaction.
AddReaction(messageId, tableNumber, reaction) ==
    /\ messageId \in DOMAIN msgs
    /\ reaction \in Kinds
    /\ LET message == ApplyReaction(msgs[messageId], tableNumber, reaction)
       IN /\ msgs' = [msgs EXCEPT ![messageId] = message]
          /\ last' = [op |-> "add-reaction", status |-> 200,
                      m |-> messageId, table |-> tableNumber, kind |-> reaction,
                      reactions |-> message.reactions,
                      userReaction |-> UserReaction(message, tableNumber),
                      before |-> Tally(msgs[messageId]),
                      held |-> Markers(msgs[messageId], tableNumber)]
    /\ UNCHANGED users
    /\ UNCHANGED gameAt
    /\ UNCHANGED auth
    /\ twice' = IF /\ twice.on
                   /\ last.op = "add-reaction" /\ last.status = 200
                   /\ <<last.m, last.table, last.kind>>
                        = <<messageId, tableNumber, reaction>>
                THEN [on |-> TRUE,
                      call |-> <<last.m, last.table, last.kind>>,
                      before |-> last.before, held |-> last.held]
                ELSE Forget(twice)
    /\ UNCHANGED <<nextMsg, tableCodes, gameStatus, chVars, now, backendVars, reqs>>

----------------------------------------------------------------------------
(* Initial state: an empty store *)

InitStore ==
    /\ msgs = <<>>
    /\ nextMsg = 0
    /\ tableCodes = {}
    /\ gameStatus = "not_started"
    /\ challenges = <<>>
    /\ activeList = <<>>
    /\ badges = [t \in Tables |-> <<>>]
    /\ users = NoUsers
    /\ gameAt = GameAtFor(gameStatus)
    /\ auth = NoAuth
    /\ now = 1
    /\ bmsgs = <<>>
    /\ btables = {}
    /\ bstatus = "not_started"
    /\ bcodes = CodesOf(btables)
    /\ reqs = <<>>
    /\ last = NoCall

Init == InitStore /\ twice = TwiceOff

\* The store once the admin has created the tables and started the game.
InitPlaying ==
    /\ msgs = <<>>
    /\ nextMsg = 0
    /\ tableCodes = Tables
    /\ gameStatus = "active"
    /\ challenges = <<>>
    /\ activeList = <<>>
    /\ badges = [t \in Tables |-> <<>>]
    /\ now = 1
    /\ bmsgs = <<>>
    /\ btables = {}
    /\ bstatus = "not_started"
    /\ bcodes = CodesOf(btables)
    /\ reqs = <<>>
    /\ last = NoCall
    /\ users = NoUsers
    /\ gameAt = GameAtFor(gameStatus)
    /\ auth = NoAuth
    /\ twice = TwiceOff
InitTwice == InitStore /\ twice = TwiceOn

----------------------------------------------------------------------------
(* Reaction ledger of the key-value server, handlers run one at a time *)

NextLedger ==
    \/ \E t \in Tables : CreateTableCode(t)
    \/ StartGame
    \/ /\ nextMsg < MaxLedgerMsgs
       /\ \E f \in Tables, t \in Tables : SendMessage(f, t)
    \/ \E m \in DOMAIN msgs, t \in Tables, k \in Kinds : AddReaction(m, t, k)

SpecLedger == Init /\ [][NextLedger]_vars

\* C1: after any sequence of add-reaction calls run one after another, every
\* (message, table) pair holds at most one reaction-kind marker, and each of
\* the four counters of a message equals the number of tables holding that
\* kind's marker on it.
ExclusiveAndCounted ==
    \A m \in DOMAIN msgs :
        /\ \A t \in Tables : Cardinality(Markers(msgs[m], t)) <= 1
        /\ \A k \in Kinds :
             Tally(msgs[m])[k] =
                Cardinality({t \in Tables : <<t, k>> \in msgs[m].reactedTables})

\* C1 witness: a message on which both tables hold a marker, of different
\* kinds, after one of them switched its reaction.
ExclusiveWitness ==
    /\ last.op = "add-reaction"
    /\ last.held # {} /\ last.kind \notin last.held
    /\ \E m \in DOMAIN msgs :
         /\ m = last.m
         /\ \A t \in Tables : Markers(msgs[m], t) # {}
         /\ Markers(msgs[m], "A1") # Markers(msgs[m], "B2")

\* C6: an accepted add-reaction(m, t, k) has exactly three outcomes.  If t
\* held no marker on m, counter k goes up by 1 and marker k is set; if t held
\* marker k, counter k goes down by 1 and the marker is removed; if t held a
\* marker of another kind, that counter goes down by 1 and its marker is
\* removed, counter k goes up by 1 and marker k is set.  The response carries
\* the new tally and the one kind t holds afterwards, or NULL.
ThreeOutcomesStep ==
    (last'.op = "add-reaction" /\ last'.status = 200) =>
        LET m == last'.m
            t == last'.table
            k == last'.kind
            old == Tally(msgs[m])
            new == Tally(msgs'[m])
            held == Markers(msgs[m], t)
            others == msgs[m].reactedTables \ {<<t, x>> : x \in Kinds}
        IN /\ m \in DOMAIN msgs /\ m \in DOMAIN msgs'
           /\ \/ /\ held = {}
                 /\ new = [old EXCEPT ![k] = @ + 1]
                 /\ msgs'[m].reactedTables = others \cup {<<t, k>>}
                 /\ last'.userReaction = k
              \/ /\ held = {k}
                 /\ new = [old EXCEPT ![k] = @ - 1]
                 /\ msgs'[m].reactedTables = others
                 /\ last'.userReaction = NULL
              \/ \E kprev \in Kinds \ {k} :
                    /\ held = {kprev}
                    /\ new = [old EXCEPT ![kprev] = @ - 1, ![k] = @ + 1]
                    /\ msgs'[m].reactedTables = others \cup {<<t, k>>}
                    /\ last'.userReaction = k
           /\ last'.reactions = new

ThreeOutcomes == [][ThreeOutcomesStep]_vars

\* C6 witness: table A1 has reacted heart, then fire, then fire again on a
\* message whose tally was all zero: the tally is all zero again.
ThreeOutcomesWitness ==
    /\ last.op = "add-reaction" /\ last.table = "A1" /\ last.kind = "fire"
    /\ last.held = {"fire"}
    /\ last.before = [ZeroReactions EXCEPT !["fire"] = 1]
    /\ last.userReaction = NULL
    /\ Tally(msgs[last.m]) = ZeroReactions

----------------------------------------------------------------------------
(* The ledger with the two-call recorder switched on *)

SpecTwice == InitTwice /\ [][NextLedger]_vars

TwoInARow ==
    /\ twice.on
    /\ last.op = "add-reaction" /\ last.status = 200
    /\ twice.call = <<last.m, last.table, last.kind>>

\* C5 as stated: from every pre-state, two consecutive add-reaction(m, t, k)
\* calls leave the tally of m equal to the pre-state tally.
TwiceRestoresAlways ==
    TwoInARow => Tally(msgs[last.m]) = twice.before

\* C5 amended: two consecutive add-reaction(m, t, k) calls restore the
\* pre-state tally when t held no marker or marker k on m before the first
\* call; when t held a marker of another kind kprev, they leave counter
\* kprev one lower than before and every other counter as before.
TwiceRestores ==
    TwoInARow =>
        LET k == last.kind
        IN \/ /\ twice.held \subseteq {k}
              /\ Tally(msgs[last.m]) = twice.before
           \/ \E kprev \in Kinds \ {k} :
                 /\ twice.held = {kprev}
                 /\ Tally(msgs[last.m]) = [twice.before EXCEPT ![kprev] = @ - 1]

\* C5 witness: a table that held marker k repeated add-reaction(m, t, k):
\* off, then on again, with the other table's marker in the tally too.
TwiceWitness ==
    /\ TwoInARow
    /\ twice.held = {last.kind}
    /\ \E k \in Kinds : twice.before[k] = 2
    /\ Tally(msgs[last.m]) = twice.before

----------------------------------------------------------------------------
(* Key-value server: challenge engine *)

ChallengeTypes == {"most_messages", "most_reactions", "speed"}

\* The title, badge name and badge emoji an admin gives a challenge.
Trophy == [title |-> "Sprint", badgeName |-> "Flash", badgeEmoji |-> "bolt"]
Medal == [title |-> "Chatter", badgeName |-> "Talker", badgeEmoji |-> "speech"]
Ribbon == [title |-> "Loved", badgeName |-> "Star", badgeEmoji |-> "heart"]
Prizes == {Trophy, Medal, Ribbon}

SpeedCount == 5         \* messages a table must send in a speed challenge

\* A JavaScript object used as a map: its keys in insertion order and their
\* values.  (The table ids of the model are not integer-like, so Object.entries
\* yields them in insertion order.)
EmptyObj == [keys |-> <<>>, val |-> <<>>]
Has(obj, key) == key \in DOMAIN obj.val
Put(obj, key, v) ==
    [keys |-> IF Has(obj, key) THEN obj.keys ELSE Append(obj.keys, key),
     val |-> [k \in DOMAIN obj.val \cup {key} |->
                IF k = key THEN v ELSE obj.val[k]]]

\* A plausible slip: a challenge counts as expired a minute late.
ExpiredLate(challenge) == now > challenge.endsAt + 1

\* now > endsAt
Expired(challenge) == now > challenge.endsAt

\* A plausible slip: the end of the window is exclusive.
InWindowExclusive(challenge, msg) ==
    /\ msg.timestamp >= challenge.startedAt
    /\ msg.timestamp < challenge.endsAt
    /\ msg.fromTable # ADMIN

\* The filter of determineWinner: timestamp inside [startedAt, endsAt] and
\* not an administrative broadcast.
InWindow(challenge, msg) ==
    /\ msg.timestamp >= challenge.startedAt
    /\ msg.timestamp <= challenge.endsAt
    /\ msg.fromTable # ADMIN

ChallengeMessages(challenge, allMessages) ==
    SelectSeq(allMessages, LAMBDA msg : InWindow(challenge, msg))

\* A plausible slip: only hearts are counted.
TotalReactionsHeartsOnly(msg) ==
    IF msg.hasReactions THEN msg.reactions["heart"] ELSE 0

TotalReactions(msg) ==
    IF msg.hasReactions
    THEN msg.reactions["heart"] + msg.reactions["thumbsup"]
         + msg.reactions["fire"] + msg.reactions["laugh"]
    ELSE 0

\* most_messages: one per message, per sending table.
RECURSIVE CountMessages(_, _, _)
CountMessages(results, challengeMessages, i) ==
    IF i > Len(challengeMessages) THEN results
    ELSE LET msg == challengeMessages[i]
             cur == IF Has(results, msg.fromTable)
                    THEN results.val[msg.fromTable] ELSE 0
         IN CountMessages(Put(results, msg.fromTable, cur + 1),
                          challengeMessages, i + 1)

\* most_reactions: the four counters of each message, per sending table.
RECURSIVE CountReactions(_, _, _)
CountReactions(results, challengeMessages, i) ==
    IF i > Len(challengeMessages) THEN results
    ELSE LET msg == challengeMessages[i]
             cur == IF Has(results, msg.fromTable)
                    THEN results.val[msg.fromTable] ELSE 0
         IN CountReactions(Put(results, msg.fromTable, cur + TotalReactions(msg)),
                           challengeMessages, i + 1)

\* speed: messageCounts; firstFive is the timestamp of the message with
\* which the table's count became SpeedCount, in the order of the list.
RECURSIVE CountSpeed(_, _, _)
CountSpeed(messageCounts, challengeMessages, i) ==
    IF i > Len(challengeMessages) THEN messageCounts
    ELSE LET msg == challengeMessages[i]
             cur == IF Has(messageCounts, msg.fromTable)
                    THEN messageCounts.val[msg.fromTable]
                    ELSE [count |-> 0, firstFive |-> 0]
             count == cur.count + 1
             firstFive == IF count = SpeedCount /\ cur.firstFive = 0
                          THEN msg.timestamp ELSE cur.firstFive
         IN CountSpeed(Put(messageCounts, msg.fromTable,
                           [count |-> count, firstFive |-> firstFive]),
                       challengeMessages, i + 1)

\* results of a speed challenge: the tables whose firstFive is set.
RECURSIVE SpeedResults(_, _, _)
SpeedResults(results, messageCounts, i) ==
    IF i > Len(messageCounts.keys) THEN results
    ELSE LET tableId == messageCounts.keys[i]
             data == messageCounts.val[tableId]
         IN SpeedResults(IF data.firstFive > 0
                         THEN Put(results, tableId, data.firstFive)
                         ELSE results,
                         messageCounts, i + 1)

ComputeResults(challenge, allMessages) ==
    LET challengeMessages == ChallengeMessages(challenge, allMessages)
    IN CASE challenge.type = "most_messages" ->
              CountMessages(EmptyObj, challengeMessages, 1)
         [] challenge.type = "most_reactions" ->
              CountReactions(EmptyObj, challengeMessages, 1)
         [] challenge.type = "speed" ->
              SpeedResults(EmptyObj,
                           CountSpeed(EmptyObj, challengeMessages, 1), 1)
         [] OTHER -> EmptyObj

\* A plausible slip: >= instead of >, so the last of several tables with the
\* best score wins.
RECURSIVE FindWinnerLastOnTie(_, _, _, _)
FindWinnerLastOnTie(w, type, results, i) ==
    IF i > Len(results.keys) THEN w
    ELSE LET tableId == results.keys[i]
             score == results.val[tableId]
             better == IF type = "speed"
                       THEN score > 0 /\ (w.inf \/ score < w.winnerScore)
                       ELSE score >= w.winnerScore
         IN FindWinnerLastOnTie(IF better
                                THEN [winnerId |-> tableId,
                                      winnerScore |-> score, inf |-> FALSE]
                                ELSE w,
                                type, results, i + 1)

\* A plausible slip: the speed challenge goes to the latest timestamp.
RECURSIVE FindWinnerLatest(_, _, _, _)
FindWinnerLatest(w, type, results, i) ==
    IF i > Len(results.keys) THEN w
    ELSE LET tableId == results.keys[i]
             score == results.val[tableId]
             better == IF type = "speed"
                       THEN score > 0 /\ (w.inf \/ score > w.winnerScore)
                       ELSE score > w.winnerScore
         IN FindWinnerLatest(IF better
                             THEN [winnerId |-> tableId, winnerScore |-> score,
                                   inf |-> FALSE]
                             ELSE w,
                             type, results, i + 1)

\* The loop that finds the winner.  w.inf stands for winnerScore = Infinity.
RECURSIVE FindWinner(_, _, _, _)
FindWinner(w, type, results, i) ==
    IF i > Len(results.keys) THEN w
    ELSE LET tableId == results.keys[i]
             score == results.val[tableId]
             better == IF type = "speed"
                       THEN score > 0 /\ (w.inf \/ score < w.winnerScore)
                       ELSE score > w.winnerScore
         IN FindWinner(IF better
                       THEN [winnerId |-> tableId, winnerScore |-> score,
                             inf |-> FALSE]
                       ELSE w,
                       type, results, i + 1)

\* determineWinner up to the assignment of challenge.results and
\* challenge.winner; allMessages is what kv.getByPrefix("message:") returned,
\* in the order it returned it.
DetermineWinner(challenge, allMessages) ==
    LET results == ComputeResults(challenge, allMessages)
        w == FindWinner([winnerId |-> NULL, winnerScore |-> 0,
                         inf |-> challenge.type = "speed"],
                        challenge.type, results, 1)
    IN [challenge EXCEPT !.results = results.val, !.winner = w.winnerId]

\* The badge record pushed on the winner's list.
NewBadge(challengeId, challenge) ==
    [challengeId |-> challengeId, name |-> challenge.badgeName,
     emoji |-> challenge.badgeEmoji, awardedAt |-> now,
     challengeTitle |-> challenge.title]

\* kv.getByPrefix("message:") returns the stored messages in an order the
\* store does not fix (its query has no ORDER BY): every order is possible.
RECURSIVE Perms(_)
Perms(S) ==
    IF S = {} THEN {<<>>}
    ELSE UNION {{<<x>> \o p : p \in Perms(S \ {x})} : x \in S}

RECURSIVE Ascending(_)
Ascending(S) ==
    IF S = {} THEN <<>>
    ELSE LET x == CHOOSE y \in S : \A z \in S : y <= z
         IN <<x>> \o Ascending(S \ {x})

\* seq with its element x moved to position pos.
MoveTo(seq, x, pos) ==
    LET rest == SelectSeq(seq, LAMBDA y : y # x)
    IN SubSeq(rest, 1, pos - 1) \o <<x>> \o SubSeq(rest, pos, Len(rest))

Senders == {msgs[id].fromTable : id \in DOMAIN msgs}
IdsFrom(t) == {id \in DOMAIN msgs : msgs[id].fromTable = t}

\* For one sender: its ids in ascending order, and that order with any one
\* of them moved to position SpeedCount.
SenderOrders(t) ==
    {Ascending(IdsFrom(t))} \cup
    (IF Cardinality(IdsFrom(t)) >= SpeedCount
     THEN {MoveTo(Ascending(IdsFrom(t)), x, SpeedCount) : x \in IdsFrom(t)}
     ELSE {})

RECURSIVE Concat(_, _, _)
Concat(senderSeq, choice, i) ==
    IF i > Len(senderSeq) THEN <<>>
    ELSE choice[senderSeq[i]] \o Concat(senderSeq, choice, i + 1)

\* When the store holds more than MaxPermuted messages not every order is
\* tried: the senders come in every order, and within a sender any one
\* message may be the SpeedCount-th.  (determineWinner looks at the messages
\* of each sender in their relative order and at the order in which the
\* senders first appear; these orders produce each such combination.)
SampledIdOrders ==
    {Concat(senderSeq, choice, 1) :
       senderSeq \in Perms(Senders),
       choice \in {c \in [Senders -> UNION {SenderOrders(t) : t \in Senders}] :
                     \A t \in Senders : c[t] \in SenderOrders(t)}}

IdOrders ==
    IF Cardinality(DOMAIN msgs) <= MaxPermuted
    THEN Perms(DOMAIN msgs)
    ELSE SampledIdOrders

StoreOrders == {[i \in DOMAIN p |-> msgs[p[i]]] : p \in IdOrders}

----------------------------------------------------------------------------
(* Key-value server: challenge handlers run one at a time *)

\* A minute passes.
Tick ==
    /\ now < MaxTime
    /\ now' = now + 1
    /\ last' = [op |-> "tick", status |-> 0]
    /\ UNCHANGED users
    /\ UNCHANGED gameAt
    /\ UNCHANGED auth
    /\ twice' = Forget(twice)
    /\ UNCHANGED <<kvVars, backendVars, reqs>>

\* POST admin/create-challenge with complete, valid fields.
CreateChallenge(type, durationMinutes, prize) ==
    /\ type \in ChallengeTypes
    /\ durationMinutes >= 1 /\ durationMinutes <= 60
    /\ LET challengeId == Cardinality(DOMAIN challenges) + 1
           challenge == [id |-> challengeId, title |-> prize.title,
                         type |-> type,
                         startedAt |-> now, endsAt |-> now + durationMinutes,
                         active |-> TRUE, badgeName |-> prize.badgeName,
                         badgeEmoji |-> prize.badgeEmoji,
                         winner |-> NULL, results |-> <<>>]
       IN /\ challenges' = [c \in DOMAIN challenges \cup {challengeId} |->
                              IF c = challengeId THEN challenge
                              ELSE challenges[c]]
          /\ activeList' = Append(activeList, challengeId)
          /\ last' = [op |-> "create-challenge", status |-> 200,
                      c |-> challengeId]
    /\ UNCHANGED users
    /\ UNCHANGED gameAt
    /\ UNCHANGED auth
    /\ twice' = Forget(twice)
    /\ UNCHANGED <<msgs, nextMsg, tableCodes, gameStatus, badges, now,
                   backendVars, reqs>>

\* What resolving a challenge leaves in the store: determineWinner (results,
\* winner, the winner's badge, the challenge saved) and then the handler's
\* challenge.active = false and kv.set.  st = [challenges, badges].
ResolveStore(st, challengeId, challenge, allMessages) ==
    LET decided == DetermineWinner(challenge, allMessages)
        ended == [decided EXCEPT !.active = FALSE]
    IN [challenges |-> [st.challenges EXCEPT ![challengeId] = ended],
        badges |-> IF decided.winner # NULL
                   THEN [st.badges EXCEPT ![decided.winner] =
                           Append(@, NewBadge(challengeId, decided))]
                   ELSE st.badges,
        challenge |-> ended]

\* The loop of GET challenges/active over the ids of the active list;
\* orders[i] is what kv.getByPrefix returns if the i-th challenge is resolved.
\* st = [challenges, badges, out, resolved].
RECURSIVE ListLoop(_, _, _, _)
ListLoop(st, activeChallengeIds, orders, i) ==
    IF i > Len(activeChallengeIds) THEN st
    ELSE LET challengeId == activeChallengeIds[i]
         IN IF challengeId \in DOMAIN st.challenges
               /\ st.challenges[challengeId].active
            THEN IF Expired(st.challenges[challengeId])
                 THEN LET r == ResolveStore(st, challengeId,
                                            st.challenges[challengeId],
                                            orders[i])
                      IN ListLoop([challenges |-> r.challenges,
                                   badges |-> r.badges,
                                   out |-> st.out,
                                   resolved |-> st.resolved \cup {challengeId}],
                                  activeChallengeIds, orders, i + 1)
                 ELSE ListLoop([st EXCEPT !.out =
                                  Append(@, st.challenges[challengeId])],
                               activeChallengeIds, orders, i + 1)
            ELSE ListLoop(st, activeChallengeIds, orders, i + 1)

\* GET challenges/active
ListActiveChallenges ==
    \E orders \in [1..Len(activeList) -> StoreOrders] :
        LET st == ListLoop([challenges |-> challenges, badges |-> badges,
                            out |-> <<>>, resolved |-> {}],
                           activeList, orders, 1)
        IN /\ challenges' = st.challenges
           /\ badges' = st.badges
           /\ last' = [op |-> "challenges/active", status |-> 200,
                       challenges |-> st.out, resolved |-> st.resolved]
           /\ UNCHANGED users
           /\ UNCHANGED gameAt
           /\ UNCHANGED auth
           /\ twice' = Forget(twice)
           /\ UNCHANGED <<msgs, nextMsg, tableCodes, gameStatus, activeList,
                          now, backendVars, reqs>>

\* GET challenges/:id
GetChallenge(challengeId) ==
    IF challengeId \notin DOMAIN challenges
    THEN /\ last' = [op |-> "challenges/:id", status |-> 404, c |-> challengeId]
         /\ UNCHANGED users
         /\ UNCHANGED gameAt
         /\ UNCHANGED auth
         /\ twice' = Forget(twice)
         /\ UNCHANGED <<kvVars, now, backendVars, reqs>>
    ELSE IF Expired(challenges[challengeId]) /\ challenges[challengeId].active
    THEN \E allMessages \in StoreOrders :
            LET r == ResolveStore([challenges |-> challenges, badges |-> badges],
                                  challengeId, challenges[challengeId],
                                  allMessages)
            IN /\ challenges' = r.challenges
               /\ badges' = r.badges
               /\ last' = [op |-> "challenges/:id", status |-> 200,
                           c |-> challengeId, challenge |-> r.challenge,
                           resolved |-> {challengeId}]
               /\ UNCHANGED users
               /\ UNCHANGED gameAt
               /\ UNCHANGED auth
               /\ twice' = Forget(twice)
               /\ UNCHANGED <<msgs, nextMsg, tableCodes, gameStatus,
                              activeList, now, backendVars, reqs>>
    ELSE /\ last' = [op |-> "challenges/:id", status |-> 200,
                     c |-> challengeId, challenge |-> challenges[challengeId],
                     resolved |-> {}]
         /\ UNCHANGED users
         /\ UNCHANGED gameAt
         /\ UNCHANGED auth
         /\ twice' = Forget(twice)
         /\ UNCHANGED <<kvVars, now, backendVars, reqs>>

\* A plausible slip: the filter keeps the ids before the ended one only.
EndChallengeCutsList(challengeId) ==
    IF challengeId \notin DOMAIN challenges
    THEN /\ last' = [op |-> "end-challenge", status |-> 404, c |-> challengeId]
         /\ UNCHANGED users
         /\ UNCHANGED gameAt
         /\ UNCHANGED auth
         /\ twice' = Forget(twice)
         /\ UNCHANGED <<kvVars, now, backendVars, reqs>>
    ELSE IF ~challenges[challengeId].active
    THEN /\ last' = [op |-> "end-challenge", status |-> 400, c |-> challengeId]
         /\ UNCHANGED users
         /\ UNCHANGED gameAt
         /\ UNCHANGED auth
         /\ twice' = Forget(twice)
         /\ UNCHANGED <<kvVars, now, backendVars, reqs>>
    ELSE \E allMessages \in StoreOrders :
            LET r == ResolveStore([challenges |-> challenges, badges |-> badges],
                                  challengeId, challenges[challengeId],
                                  allMessages)
            IN /\ challenges' = r.challenges
               /\ badges' = r.badges
               /\ activeList' = SelectSeq(activeList,
                                          LAMBDA id : id < challengeId)
               /\ last' = [op |-> "end-challenge", status |-> 200,
                           c |-> challengeId, winner |-> r.challenge.winner,
                           results |-> r.challenge.results]
               /\ UNCHANGED users
               /\ UNCHANGED gameAt
               /\ UNCHANGED auth
               /\ twice' = Forget(twice)
               /\ UNCHANGED <<msgs, nextMsg, tableCodes, gameStatus, now,
                              backendVars, reqs>>

\* A plausible slip: the handler does not look at challenge.active.
EndChallengeAgain(challengeId) ==
    IF challengeId \notin DOMAIN challenges
    THEN /\ last' = [op |-> "end-challenge", status |-> 404, c |-> challengeId]
         /\ UNCHANGED users
         /\ UNCHANGED gameAt
         /\ UNCHANGED auth
         /\ twice' = Forget(twice)
         /\ UNCHANGED <<kvVars, now, backendVars, reqs>>
    ELSE \E allMessages \in StoreOrders :
            LET r == ResolveStore([challenges |-> challenges, badges |-> badges],
                                  challengeId, challenges[challengeId],
                                  allMessages)
            IN /\ challenges' = r.challenges
               /\ badges' = r.badges
               /\ activeList' = SelectSeq(activeList,
                                          LAMBDA id : id # challengeId)
               /\ last' = [op |-> "end-challenge", status |-> 200,
                           c |-> challengeId, winner |-> r.challenge.winner,
                           results |-> r.challenge.results]
               /\ UNCHANGED users
               /\ UNCHANGED gameAt
               /\ UNCHANGED auth
               /\ twice' = Forget(twice)
               /\ UNCHANGED <<msgs, nextMsg, tableCodes, gameStatus, now,
                              backendVars, reqs>>

\* POST admin/end-challenge/:id
EndChallenge(challengeId) ==
    IF challengeId \notin DOMAIN challenges
    THEN /\ last' = [op |-> "end-challenge", status |-> 404, c |-> challengeId]
         /\ UNCHANGED users
         /\ UNCHANGED gameAt
         /\ UNCHANGED auth
         /\ twice' = Forget(twice)
         /\ UNCHANGED <<kvVars, now, backendVars, reqs>>
    ELSE IF ~challenges[challengeId].active
    THEN /\ last' = [op |-> "end-challenge", status |-> 400, c |-> challengeId]
         /\ UNCHANGED users
         /\ UNCHANGED gameAt
         /\ UNCHANGED auth
         /\ twice' = Forget(twice)
         /\ UNCHANGED <<kvVars, now, backendVars, reqs>>
    ELSE \E allMessages \in StoreOrders :
            LET r == ResolveStore([challenges |-> challenges, badges |-> badges],
                                  challengeId, challenges[challengeId],
                                  allMessages)
            IN /\ challenges' = r.challenges
               /\ badges' = r.badges
               /\ activeList' = SelectSeq(activeList,
                                          LAMBDA id : id # challengeId)
               /\ last' = [op |-> "end-challenge", status |-> 200,
                           c |-> challengeId, winner |-> r.challenge.winner,
                           results |-> r.challenge.results]
               /\ UNCHANGED users
               /\ UNCHANGED gameAt
               /\ UNCHANGED auth
               /\ twice' = Forget(twice)
               /\ UNCHANGED <<msgs, nextMsg, tableCodes, gameStatus, now,
                              backendVars, reqs>>

ChallengeIds == 1..MaxChallenges

\* The badge-award records that reference a challenge, over all tables.
RECURSIVE CountFor(_, _, _)
CountFor(list, challengeId, i) ==
    IF i > Len(list) THEN 0
    ELSE (IF list[i].challengeId = challengeId THEN 1 ELSE 0)
         + CountFor(list, challengeId, i + 1)

RECURSIVE SumOver(_, _)
SumOver(S, challengeId) ==
    IF S = {} THEN 0
    ELSE LET t == CHOOSE x \in S : TRUE
         IN CountFor(badges[t], challengeId, 1) + SumOver(S \ {t}, challengeId)

BadgeCount(challengeId) == SumOver(Tables, challengeId)

NextChallenge ==
    \/ /\ nextMsg < MaxChalMsgs
       /\ \E f \in Tables, t \in Tables : SendMessage(f, t)
    \/ Tick
    \/ /\ Cardinality(DOMAIN challenges) < MaxChallenges
       /\ \E type \in ChallengeTypes, d \in 1..MaxDuration :
             CreateChallenge(type, d, Trophy)
    \/ ListActiveChallenges
    \/ \E c \in ChallengeIds : GetChallenge(c)
    \/ \E c \in ChallengeIds : EndChallenge(c)

SpecChallenge == InitPlaying /\ [][NextChallenge]_vars

\* C8: GET challenges/active never returns a challenge whose endsAt is
\* earlier than the current time, and GET challenges/:id never returns an
\* expired challenge as active: an active challenge with now > endsAt that a
\* read touches is resolved and stored inactive before the response.
ReadsResolveExpired ==
    /\ (last.op = "challenges/active") =>
          /\ \A i \in DOMAIN last.challenges :
                /\ ~(last.challenges[i].endsAt < now)
                /\ last.challenges[i] = challenges[last.challenges[i].id]
          /\ \A i \in DOMAIN activeList :
                activeList[i] \in DOMAIN challenges =>
                   ~(/\ challenges[activeList[i]].active
                     /\ now > challenges[activeList[i]].endsAt)
          /\ \A c \in last.resolved :
                /\ ~challenges[c].active
                /\ challenges[c].winner \in Tables \cup {NULL}
                /\ DOMAIN challenges[c].results \subseteq Tables
    /\ (last.op = "challenges/:id" /\ last.status = 200) =>
          /\ ~(last.challenge.active /\ now > last.challenge.endsAt)
          /\ challenges[last.c] = last.challenge
          /\ \A c \in last.resolved : ~challenges[c].active

\* C8 witness: a read of the active list met an expired challenge that was
\* still stored as active, resolved it with a winner and left it out of the
\* response.
ReadsResolveWitness ==
    /\ last.op = "challenges/active"
    /\ \E c \in last.resolved :
          /\ now > challenges[c].endsAt
          /\ challenges[c].winner # NULL
          /\ \A i \in DOMAIN last.challenges : last.challenges[i].id # c

\* C21: POST admin/end-challenge/:id on a challenge that is already inactive
\* answers 400 ("already ended") and on an unknown id answers 404; in both
\* cases the challenge records, the active-id list and every badge list are
\* left as they were.
EndRejectedStep ==
    (last'.op = "end-challenge") =>
        /\ last'.c \notin DOMAIN challenges =>
              last'.status = 404 /\ UNCHANGED chVars
        /\ (last'.c \in DOMAIN challenges /\ ~challenges[last'.c].active) =>
              last'.status = 400 /\ UNCHANGED chVars

EndRejected == [][EndRejectedStep]_vars

\* An end request has just been refused for a challenge that was resolved
\* with a winner, who holds the one badge of the challenge.
EndRejectedWitness ==
    /\ last.op = "end-challenge"
    /\ last.status = 400
    /\ ~challenges[last.c].active
    /\ challenges[last.c].winner # NULL
    /\ BadgeCount(last.c) = 1

----------------------------------------------------------------------------
(* The active-id list.  The initial states are stores the handlers reach:  *)
(* table A1 has sent one message and the admin has created n most_messages *)
(* challenges in minute 1, of 1 or 2 minutes each.                         *)

InitListed ==
    \E n \in 1..MaxListed :
      \E d \in [1..n -> {1, 2}] :
        /\ msgs = <<MessageAt(1, "A1", "B2", 1)>>
        /\ nextMsg = 1
        /\ tableCodes = Tables
        /\ gameStatus = "active"
        /\ challenges = [c \in 1..n |->
                           [id |-> c, title |-> Medal.title,
                            type |-> "most_messages", startedAt |-> 1,
                            endsAt |-> 1 + d[c], active |-> TRUE,
                            badgeName |-> Medal.badgeName,
                            badgeEmoji |-> Medal.badgeEmoji,
                            winner |-> NULL, results |-> <<>>]]
        /\ activeList = [c \in 1..n |-> c]
        /\ badges = [t \in Tables |-> <<>>]
        /\ now = 1
        /\ bmsgs = <<>>
        /\ btables = {}
        /\ bstatus = "not_started"
        /\ bcodes = CodesOf(btables)
        /\ reqs = <<>>
        /\ last = NoCall
        /\ users = NoUsers
        /\ gameAt = GameAtFor(gameStatus)
        /\ auth = NoAuth
        /\ twice = TwiceOff

NextListed ==
    \/ Tick
    \/ ListActiveChallenges
    \/ \E c \in DOMAIN challenges : GetChallenge(c)
    \/ \E c \in DOMAIN challenges : EndChallenge(c)

SpecListed == InitListed /\ [][NextListed]_vars

\* The list without the id, the other ids in their order.
Without(list, id) ==
    LET keep == {i \in DOMAIN list : list[i] # id}
        RECURSIVE Build(_)
        Build(i) == IF i > Len(list) THEN <<>>
                    ELSE (IF i \in keep THEN <<list[i]>> ELSE <<>>)
                         \o Build(i + 1)
    IN Build(1)

\* C26: an accepted end-challenge call removes exactly the id of the ended
\* challenge from the active-id list, the other ids keeping their order; a
\* read (GET challenges/active or GET challenges/:id) that resolves an
\* expired challenge stores it inactive and leaves the active-id list as it
\* was.
ListFrameStep ==
    /\ (last'.op = "end-challenge" /\ last'.status = 200) =>
          /\ activeList' = Without(activeList, last'.c)
          /\ Len(activeList') = Len(activeList) - 1
          /\ ~challenges'[last'.c].active
    /\ (last'.op \in {"challenges/active", "challenges/:id"}) =>
          /\ activeList' = activeList
          /\ last'.status = 200 =>
                \A c \in last'.resolved :
                    /\ challenges[c].active
                    /\ ~challenges'[c].active

ListFrame == [][ListFrameStep]_vars

\* The second of three listed challenges has just been ended by hand, and
\* the first one, resolved earlier by a read, is still in the list.
ListFrameWitness ==
    /\ last.op = "end-challenge"
    /\ last.status = 200
    /\ last.c = 2
    /\ activeList = <<1, 3>>
    /\ ~challenges[1].active
    /\ challenges[3].active

\* C27: every id in the active-id list refers to a stored challenge whose
\* active flag is true.
ListAccurate ==
    \A i \in DOMAIN activeList :
        /\ activeList[i] \in DOMAIN challenges
        /\ challenges[activeList[i]].active

----------------------------------------------------------------------------
(* Speed challenges.  determineWinner is a function of the challenge and   *)
(* of the stored messages in the order the store returns them; the initial *)
(* states are stores the handlers reach: table A1 has sent nA messages,    *)
(* one a minute from minute 1, table B2 nB messages from minute oB + 1,    *)
(* and a speed challenge has been created at minute s.                     *)

SpeedSends(nA, nB, oB) ==
    {<<"A1", i>> : i \in 1..nA} \cup {<<"B2", oB + i>> : i \in 1..nB}

\* Message ids follow the send order: by minute, A1 before B2 in a minute.
SendRank(p, P) ==
    1 + Cardinality({q \in P : \/ q[2] < p[2]
                               \/ (q[2] = p[2] /\ q[1] = "A1" /\ p[1] = "B2")})

OtherTable(t) == IF t = "A1" THEN "B2" ELSE "A1"

SpeedMessages(P) ==
    [id \in 1..Cardinality(P) |->
        LET p == CHOOSE q \in P : SendRank(q, P) = id
        IN MessageAt(id, p[1], OtherTable(p[1]), p[2])]

LastSend(P) == IF P = {} THEN 1 ELSE CHOOSE x \in {p[2] : p \in P} :
                                        \A p \in P : p[2] <= x

InitSpeed ==
    \E nA \in 0..MaxPerTable, nB \in 0..MaxPerTable,
       oB \in 0..1, s \in 1..2,
       d \in {MaxPerTable - 2, MaxPerTable + 1} :
        LET P == SpeedSends(nA, nB, oB)
        IN /\ msgs = SpeedMessages(P)
           /\ nextMsg = Cardinality(P)
           /\ tableCodes = Tables
           /\ gameStatus = "active"
           /\ challenges = <<[id |-> 1, title |-> Trophy.title,
                              type |-> "speed", startedAt |-> s,
                              endsAt |-> s + d, active |-> TRUE,
                              badgeName |-> Trophy.badgeName,
                              badgeEmoji |-> Trophy.badgeEmoji,
                              winner |-> NULL, results |-> <<>>]>>
           /\ activeList = <<1>>
           /\ badges = [t \in Tables |-> <<>>]
           /\ now = Max(LastSend(P), s + d)
           /\ bmsgs = <<>>
           /\ btables = {}
           /\ bstatus = "not_started"
           /\ bcodes = CodesOf(btables)
           /\ reqs = <<>>
           /\ last = NoCall
           /\ users = NoUsers
           /\ gameAt = GameAtFor(gameStatus)
           /\ auth = NoAuth
           /\ twice = TwiceOff

NextSpeed ==
    \/ ListActiveChallenges
    \/ \E c \in ChallengeIds : GetChallenge(c)
    \/ \E c \in ChallengeIds : EndChallenge(c)

SpecSpeed == InitSpeed /\ [][NextSpeed]_vars

\* The timestamps of the messages table t sent inside the window of the
\* challenge, and the j-th of them in chronological order (the least x with
\* at least j of them at or before x).
SentInWindow(challenge, t) ==
    {id \in DOMAIN msgs : msgs[id].fromTable = t /\ InWindow(challenge, msgs[id])}

ChronologicalNth(challenge, t, j) ==
    LET ids == SentInWindow(challenge, t)
        atOrBefore(x) == Cardinality({id \in ids : msgs[id].timestamp <= x})
        reached == {msgs[id].timestamp : id \in
                      {i \in ids : atOrBefore(msgs[i].timestamp) >= j}}
    IN CHOOSE x \in reached : \A y \in reached : x <= y

Qualified(challenge) ==
    {t \in Tables : Cardinality(SentInWindow(challenge, t)) >= SpeedCount}

ResolvedSpeed ==
    {c \in DOMAIN challenges :
       challenges[c].type = "speed" /\ ~challenges[c].active}

\* C9: in a resolved speed challenge each table's score is the timestamp of
\* its chronologically 5th message inside the window, whatever the order in
\* which the store returned the messages; so when A1 sent 5 messages and B2
\* sent, from the same minute on, 6 messages inside the window, A1 wins.
SpeedScoreChronological ==
    \A c \in ResolvedSpeed :
        /\ \A t \in Qualified(challenges[c]) :
              /\ t \in DOMAIN challenges[c].results
              /\ challenges[c].results[t]
                    = ChronologicalNth(challenges[c], t, SpeedCount)
        /\ (/\ Cardinality(SentInWindow(challenges[c], "A1")) = SpeedCount
            /\ Cardinality(SentInWindow(challenges[c], "B2")) = SpeedCount + 1
            /\ ChronologicalNth(challenges[c], "A1", 1)
                 = ChronologicalNth(challenges[c], "B2", 1))
              => challenges[c].winner = "A1"

\* C10: in a resolved speed challenge the winner is the table with the
\* smallest 5th-message timestamp among the tables that sent at least 5
\* messages in the window; tables with fewer have no entry in results; if no
\* table reached 5 the winner is null and no badge is awarded.
SpeedWinnerEarliest ==
    \A c \in ResolvedSpeed :
        LET ch == challenges[c]
        IN /\ DOMAIN ch.results = Qualified(ch)
           /\ Qualified(ch) = {} => (ch.winner = NULL /\ BadgeCount(c) = 0)
           /\ Qualified(ch) # {} =>
                 /\ ch.winner \in Qualified(ch)
                 /\ \A t \in Qualified(ch) :
                       ChronologicalNth(ch, ch.winner, SpeedCount)
                          <= ChronologicalNth(ch, t, SpeedCount)

----------------------------------------------------------------------------
(* most_messages and most_reactions challenges.  As for speed challenges   *)
(* the initial states are stores the handlers reach: table A1 has sent nA  *)
(* messages, one a minute from minute 1, table B2 nB messages from minute  *)
(* oB + 1, the admin has broadcast nAdm times in minute 2 (one message per *)
(* table), the first hA messages of A1 and the first hB of B2 hold a heart *)
(* of the other table (the very first also a fire of its own table when    *)
(* two are reacted), and a challenge has been created at minute s.         *)

ScoredSends(nA, nB, oB, nAdm) ==
    {<<"A1", i, "B2">> : i \in 1..nA}
      \cup {<<"B2", oB + i, "A1">> : i \in 1..nB}
      \cup {<<ADMIN, 2, t>> : t \in IF nAdm > 0 THEN Tables ELSE {}}

SenderIndex(x) == CASE x = "A1" -> 1 [] x = "B2" -> 2 [] OTHER -> 3

\* Message ids follow the send order: by minute, then A1, B2, broadcasts.
ScoredRank(p, P) ==
    1 + Cardinality({q \in P :
          \/ q[2] < p[2]
          \/ q[2] = p[2] /\ SenderIndex(q[1]) < SenderIndex(p[1])
          \/ q[2] = p[2] /\ q[1] = p[1] /\ SenderIndex(q[3]) < SenderIndex(p[3])})

\* The message of send p after the reactions it received.
Reacted(message, p, oB, hA, hB) ==
    LET first == IF p[1] = "A1" THEN 1 ELSE oB + 1
        h == CASE p[1] = "A1" -> hA [] p[1] = "B2" -> hB [] OTHER -> 0
        hearted == IF p[2] - first < h
                   THEN ApplyReaction(message, OtherTable(p[1]), "heart")
                   ELSE message
    IN IF p[2] = first /\ h >= 2
       THEN ApplyReaction(hearted, p[1], "fire")
       ELSE hearted

ScoredMessages(P, oB, hA, hB) ==
    [id \in 1..Cardinality(P) |->
        LET p == CHOOSE q \in P : ScoredRank(q, P) = id
        IN Reacted(MessageAt(id, p[1], p[3], p[2]), p, oB, hA, hB)]

InitScored(type, prize, nMax, oB, durations, hMax) ==
    \E nA \in 0..nMax, nB \in 0..nMax, nAdm \in 0..1, s \in 1..2,
       d \in durations, late \in BOOLEAN,
       hA \in 0..hMax, hB \in 0..hMax :
        LET P == ScoredSends(nA, nB, oB, nAdm)
        IN /\ prize \in Prizes
           /\ hA <= nA /\ hB <= nB
           /\ msgs = ScoredMessages(P, oB, hA, hB)
           /\ nextMsg = Cardinality(P)
           /\ tableCodes = Tables
           /\ gameStatus = "active"
           /\ challenges = <<[id |-> 1, title |-> prize.title,
                              type |-> type, startedAt |-> s,
                              endsAt |-> s + d, active |-> TRUE,
                              badgeName |-> prize.badgeName,
                              badgeEmoji |-> prize.badgeEmoji,
                              winner |-> NULL, results |-> <<>>]>>
           /\ activeList = <<1>>
           /\ badges = [t \in Tables |-> <<>>]
           /\ now = IF late THEN Max(LastSend(P), s + d) + 2
                    ELSE Max(LastSend(P), s)
           /\ bmsgs = <<>>
           /\ btables = {}
           /\ bstatus = "not_started"
           /\ bcodes = CodesOf(btables)
           /\ reqs = <<>>
           /\ last = NoCall
           /\ users = NoUsers
           /\ gameAt = GameAtFor(gameStatus)
           /\ auth = NoAuth
           /\ twice = TwiceOff

InitWinner ==
    \/ InitScored("most_messages", Medal, MaxScored, 0, {2, MaxScored}, 0)
    \/ InitScored("most_reactions", Ribbon, MaxReacted, 2, {1, MaxScored}, MaxReacted)

NextWinner ==
    \/ ListActiveChallenges
    \/ \E c \in ChallengeIds : GetChallenge(c)
    \/ \E c \in ChallengeIds : EndChallenge(c)

SpecWinner == InitWinner /\ [][NextWinner]_vars

\* The resolved (inactive) and the still active challenges of a type.  No
\* handler of this specification stores a message or moves the clock, so the
\* messages a resolved challenge was scored on are the stored messages.
Resolved(type) ==
    {c \in DOMAIN challenges :
       challenges[c].type = type /\ ~challenges[c].active}

Unresolved(type) ==
    {c \in DOMAIN challenges :
       challenges[c].type = type /\ challenges[c].active}

\* The stored non-broadcast messages with startedAt <= timestamp <= endsAt.
Counting(challenge) ==
    {id \in DOMAIN msgs : /\ msgs[id].fromTable # ADMIN
                          /\ msgs[id].timestamp >= challenge.startedAt
                          /\ msgs[id].timestamp <= challenge.endsAt}

CountingFrom(challenge, t) ==
    {id \in Counting(challenge) : msgs[id].fromTable = t}

CountingSenders(challenge) ==
    {msgs[id].fromTable : id \in Counting(challenge)}

\* The sender of the first counting message of the list that comes from one
\* of the given tables.
FirstOf(challenge, allMessages, tables) ==
    LET hits == {i \in 1..Len(allMessages) :
                   /\ allMessages[i].id \in Counting(challenge)
                   /\ allMessages[i].fromTable \in tables}
    IN allMessages[CHOOSE i \in hits : \A j \in hits : i <= j].fromTable

Best(S, score(_)) ==
    IF S = {} THEN 0
    ELSE LET t == CHOOSE x \in S : \A y \in S : score(x) >= score(y)
         IN score(t)

Leaders(challenge, score(_)) ==
    {t \in CountingSenders(challenge) :
       score(t) = Best(CountingSenders(challenge), score)}

\* The records of table t's badge list that reference challenge c.
AwardsIn(t, c) ==
    {i \in DOMAIN badges[t] : badges[t][i].challengeId = c}

\* What a resolution with scores score(_) has left: the results, the winner
\* (none when the best score is 0) and exactly one badge record for the
\* challenge, in the winner's list, with the challenge's name, emoji, title.
ResolvedWith(c, score(_)) ==
    LET challenge == challenges[c]
        senders == CountingSenders(challenge)
    IN /\ DOMAIN challenge.results = senders
       /\ \A t \in senders : challenge.results[t] = score(t)
       /\ IF Best(senders, score) = 0
          THEN challenge.winner = NULL /\ BadgeCount(c) = 0
          ELSE /\ challenge.winner \in Leaders(challenge, score)
               /\ BadgeCount(c) = 1
               /\ \E i \in AwardsIn(challenge.winner, c) :
                     /\ badges[challenge.winner][i].name = challenge.badgeName
                     /\ badges[challenge.winner][i].emoji = challenge.badgeEmoji
                     /\ badges[challenge.winner][i].challengeTitle
                           = challenge.title
                     /\ badges[challenge.winner][i].awardedAt <= now

\* Among several tables with the best score determineWinner picks the one
\* whose message the store returns first, for every order the store may
\* return the messages in.
FirstOnTie(c, score(_)) ==
    LET leaders == Leaders(challenges[c], score)
    IN (Cardinality(leaders) > 1 /\ Best(leaders, score) > 0) =>
          \A allMessages \in StoreOrders :
              DetermineWinner(challenges[c], allMessages).winner
                 = FirstOf(challenges[c], allMessages, leaders)

MessageCount(challenge, t) == Cardinality(CountingFrom(challenge, t))

RECURSIVE ReactionSum(_)
ReactionSum(ids) ==
    IF ids = {} THEN 0
    ELSE LET id == CHOOSE x \in ids : TRUE
         IN Tally(msgs[id])["heart"] + Tally(msgs[id])["thumbsup"]
            + Tally(msgs[id])["fire"] + Tally(msgs[id])["laugh"]
            + ReactionSum(ids \ {id})

\* C12: a resolved most_reactions challenge has given each table the sum of
\* the four reaction counters, as stored when the challenge was resolved,
\* over its non-broadcast messages inside the window; the winner is the table
\* with the highest sum (none when every sum is 0, among equals the first
\* the store returned).
MostReactions ==
    /\ \A c \in Resolved("most_reactions") :
          LET score(t) == ReactionSum(CountingFrom(challenges[c], t))
          IN ResolvedWith(c, score)
    /\ \A c \in Unresolved("most_reactions") :
          LET score(t) == ReactionSum(CountingFrom(challenges[c], t))
          IN FirstOnTie(c, score)

MostReactionsWitness ==
    /\ 1 \in DOMAIN challenges
    /\ challenges[1].type = "most_reactions"
    /\ ~challenges[1].active
    /\ challenges[1].winner = "B2"
    /\ challenges[1].results["B2"] = 3
    /\ "A1" \in DOMAIN challenges[1].results
    /\ \E id \in DOMAIN msgs \ Counting(challenges[1]) :
          msgs[id].fromTable = "A1" /\ msgs[id].hasReactions

\* What a stored message adds to table t's score in a challenge: nothing
\* when it is a broadcast, was sent before startedAt or after endsAt, or
\* comes from another table.
Contribution(challenge, message, t) ==
    IF \/ message.fromTable = ADMIN
       \/ message.timestamp < challenge.startedAt
       \/ message.timestamp > challenge.endsAt
       \/ message.fromTable # t
    THEN 0
    ELSE IF challenge.type = "most_messages" THEN 1
    ELSE Tally(message)["heart"] + Tally(message)["thumbsup"]
         + Tally(message)["fire"] + Tally(message)["laugh"]

RECURSIVE Contributions(_, _, _)
Contributions(challenge, ids, t) ==
    IF ids = {} THEN 0
    ELSE LET id == CHOOSE x \in ids : TRUE
         IN Contribution(challenge, msgs[id], t)
            + Contributions(challenge, ids \ {id}, t)

----------------------------------------------------------------------------
(* Key-value server: the leaderboard (GET admin/table-stats) and the TV    *)
(* display that shows it.  stats counts half points (one message is 0.5);  *)
(* the points of a leaderboard entry are in tenths of a point.             *)

\* A plausible slip: a fire is worth as much as a thumbsup.
MessagePointsFlatFire(msg) ==
    1 + (IF msg.hasReactions
         THEN msg.reactions["heart"] * 4 + msg.reactions["fire"] * 2
              + msg.reactions["thumbsup"] * 2 + msg.reactions["laugh"] * 1
         ELSE 0)

\* A plausible slip: reactions are not scored.
MessagePointsCountOnly(msg) == 1

\* A plausible slip: a message is worth a whole point.
MessagePointsWholeMessage(msg) ==
    2 + (IF msg.hasReactions
         THEN msg.reactions["heart"] * 4 + msg.reactions["fire"] * 3
              + msg.reactions["thumbsup"] * 2 + msg.reactions["laugh"] * 1
         ELSE 0)

\* What one message adds to stats[msg.fromTable], in half points: 0.5 for the
\* message, 2 per heart, 1.5 per fire, 1 per thumbsup, 0.5 per laugh.
MessagePoints(msg) ==
    1 + (IF msg.hasReactions
         THEN msg.reactions["heart"] * 4 + msg.reactions["fire"] * 3
              + msg.reactions["thumbsup"] * 2 + msg.reactions["laugh"] * 1
         ELSE 0)

RECURSIVE StatsLoop(_, _, _)
StatsLoop(stats, allMessages, i) ==
    IF i > Len(allMessages) THEN stats
    ELSE LET msg == allMessages[i]
         IN StatsLoop(IF msg.fromTable # NULL /\ msg.fromTable # ADMIN
                      THEN Put(stats, msg.fromTable,
                               (IF Has(stats, msg.fromTable)
                                THEN stats.val[msg.fromTable] ELSE 0)
                               + MessagePoints(msg))
                      ELSE stats,
                      allMessages, i + 1)

\* Math.round(points * 10) / 10, as tenths: points * 10 is five times the
\* half points, an integer, which Math.round leaves as it is.
RoundedTenths(halfPoints) == halfPoints * 5

\* Object.entries(stats).map(...)
Entries(stats) ==
    [i \in 1..Len(stats.keys) |->
        [tableId |-> stats.keys[i],
         points |-> RoundedTenths(stats.val[stats.keys[i]])]]

\* Array.prototype.sort with (a, b) => b.points - a.points: stable, so equal
\* points keep the order of the entries.  InsertByPoints puts an entry into
\* the sorted later entries: before those with at most its points.
RECURSIVE InsertByPoints(_, _)
InsertByPoints(sorted, entry) ==
    IF sorted = <<>> THEN <<entry>>
    ELSE IF Head(sorted).points > entry.points
    THEN <<Head(sorted)>> \o InsertByPoints(Tail(sorted), entry)
    ELSE <<entry>> \o sorted

\* A plausible slip: the entries are left in the order of Object.entries.
SortByPointsSkipped(entries, i) == entries

RECURSIVE SortByPoints(_, _)
SortByPoints(entries, i) ==
    IF i > Len(entries) THEN <<>>
    ELSE InsertByPoints(SortByPoints(entries, i + 1), entries[i])

\* Array.prototype.slice(0, n)
Slice(list, n) == SubSeq(list, 1, IF Len(list) < n THEN Len(list) ELSE n)

TopTen == 10
TopFive == 5

Leaderboard(allMessages) ==
    Slice(SortByPoints(Entries(StatsLoop(EmptyObj, allMessages, 1)), 1), TopTen)

\* The orders of kv.getByPrefix tried for the leaderboard: with more than
\* three senders only the send order and its reverse.
Descending(S) ==
    LET up == Ascending(S)
    IN [i \in DOMAIN up |-> up[Len(up) + 1 - i]]

BoardOrders ==
    IF Cardinality(Senders) <= 3 THEN StoreOrders
    ELSE {[i \in DOMAIN p |-> msgs[p[i]]] :
             p \in {Ascending(DOMAIN msgs), Descending(DOMAIN msgs)}}

\* GET admin/table-stats
TableStats ==
    /\ \E allMessages \in BoardOrders :
          last' = [op |-> "table-stats", status |-> 200,
                   leaderboard |-> Leaderboard(allMessages)]
    /\ UNCHANGED users
    /\ UNCHANGED gameAt
    /\ UNCHANGED auth
    /\ twice' = Forget(twice)
    /\ UNCHANGED <<kvVars, now, backendVars, reqs>>

\* TVDisplay.fetchLeaderboard: the response of table-stats, cut to 5 entries.
TVFetchLeaderboard ==
    /\ \E allMessages \in BoardOrders :
          last' = [op |-> "TVDisplay.fetchLeaderboard", status |-> 200,
                   leaderboard |-> Leaderboard(allMessages),
                   shown |-> Slice(Leaderboard(allMessages), TopFive)]
    /\ UNCHANGED users
    /\ UNCHANGED gameAt
    /\ UNCHANGED auth
    /\ twice' = Forget(twice)
    /\ UNCHANGED <<kvVars, now, backendVars, reqs>>

\* Stores the handlers reach, for the leaderboard.  Few tables: the stores
\* of ScoredMessages, and when `extra` the oldest message also got a laugh
\* of B2 and the newest a thumbsup of A1.
ExtraReacted(m, extra) ==
    LET sent == {id \in DOMAIN m : m[id].fromTable # ADMIN}
    IN IF ~extra \/ sent = {} THEN m
       ELSE LET lo == CHOOSE x \in sent : \A y \in sent : x <= y
                hi == CHOOSE x \in sent : \A y \in sent : x >= y
                laughed == [m EXCEPT ![lo] = ApplyReaction(m[lo], "B2", "laugh")]
            IN [laughed EXCEPT ![hi] =
                                 ApplyReaction(laughed[hi], "A1", "thumbsup")]

InitStoreOf(m, codes) ==
    /\ msgs = m
    /\ nextMsg = Len(m)
    /\ tableCodes = codes
    /\ gameStatus = "active"
    /\ challenges = <<>>
    /\ activeList = <<>>
    /\ badges = [t \in Tables |-> <<>>]
    /\ now = 3
    /\ bmsgs = <<>>
    /\ btables = {}
    /\ bstatus = "not_started"
    /\ bcodes = CodesOf(btables)
    /\ reqs = <<>>
    /\ last = NoCall
    /\ users = NoUsers
    /\ gameAt = GameAtFor(gameStatus)
    /\ auth = NoAuth
    /\ twice = TwiceOff

InitBoardFew ==
    \E nA \in 0..MaxBoardMsgs, nB \in 0..MaxBoardMsgs, nAdm \in 0..1,
       hA \in 0..MaxBoardMsgs, hB \in 0..MaxBoardMsgs, extra \in BOOLEAN :
        /\ hA <= nA /\ hB <= nB /\ hA <= 2 /\ hB <= 2
        /\ InitStoreOf(ExtraReacted(ScoredMessages(
                          ScoredSends(nA, nB, 0, nAdm), 0, hA, hB), extra),
                       Tables)

\* Many tables: table k of the first n names has sent 1 + (k * p) % 3
\* messages to A1; the first message of every table but the last (p = 1) or
\* of every second table (p > 1) holds a heart of A1.
TableNames ==
    <<"T1", "T2", "T3", "T4", "T5", "T6", "T7", "T8", "T9", "T10", "T11",
      "T12", "T13">>

ManySends(n, p) ==
    {<<k, j>> : k \in 1..n, j \in 1..3} \cap
    {q \in (1..n) \X (1..3) : q[2] <= 1 + ((q[1] * p) % 3)}

ManyRank(q, P) ==
    1 + Cardinality({r \in P : r[2] < q[2] \/ (r[2] = q[2] /\ r[1] < q[1])})

ManyMessages(P, n, p) ==
    [id \in 1..Cardinality(P) |->
        LET q == CHOOSE r \in P : ManyRank(r, P) = id
            message == MessageAt(id, TableNames[q[1]], "A1", q[2])
        IN IF q[2] = 1 /\ (IF p = 1 THEN q[1] < n ELSE q[1] % 2 = 0)
           THEN ApplyReaction(message, "A1", "heart")
           ELSE message]

InitBoardMany ==
    \E n \in 3..MaxBoardTables, p \in 1..3 :
        /\ n <= Len(TableNames)
        /\ InitStoreOf(ManyMessages(ManySends(n, p), n, p),
                       {TableNames[k] : k \in 1..n} \cup Tables)

InitBoard == InitBoardFew \/ InitBoardMany

NextBoard ==
    \/ TableStats
    \/ TVFetchLeaderboard

SpecBoard == InitBoard /\ [][NextBoard]_vars

\* The points of table t by the scoring rule, in tenths of a point, over the
\* messages of store m.
RECURSIVE RulePoints(_, _, _)
RulePoints(m, ids, t) ==
    IF ids = {} THEN 0
    ELSE LET id == CHOOSE x \in ids : TRUE
         IN (IF m[id].fromTable = t
             THEN 5 + 20 * Tally(m[id])["heart"] + 15 * Tally(m[id])["fire"]
                  + 10 * Tally(m[id])["thumbsup"] + 5 * Tally(m[id])["laugh"]
             ELSE 0)
            + RulePoints(m, ids \ {id}, t)

Scorers(m) == {m[id].fromTable : id \in DOMAIN m} \ {ADMIN, NULL}

Listed(list) == {list[i].tableId : i \in DOMAIN list}

\* C16: the leaderboard gives each table 0.5 per message it sent plus 2.0
\* per heart, 1.5 per fire, 1.0 per thumbsup and 0.5 per laugh on the current
\* tallies of those messages, over the messages whose origin is a table and
\* not the administrative sender; a table without such a message is not
\* listed (and every such table is listed while there are at most ten).
LeaderboardPoints ==
    last.op = "table-stats" =>
        /\ \A i \in DOMAIN last.leaderboard :
              /\ last.leaderboard[i].tableId \in Scorers(msgs)
              /\ last.leaderboard[i].points
                    = RulePoints(msgs, DOMAIN msgs, last.leaderboard[i].tableId)
              /\ \A j \in DOMAIN last.leaderboard :
                    last.leaderboard[j].tableId = last.leaderboard[i].tableId
                       => i = j
        /\ Cardinality(Scorers(msgs)) <= TopTen
              => Listed(last.leaderboard) = Scorers(msgs)

LeaderboardPointsWitness ==
    /\ last.op = "table-stats"
    /\ \E id \in DOMAIN msgs : msgs[id].fromTable = ADMIN
    /\ \E i \in DOMAIN last.leaderboard :
          /\ last.leaderboard[i].tableId = "A1"
          /\ last.leaderboard[i].points = 50
    /\ \E id \in DOMAIN msgs :
          /\ msgs[id].fromTable = "A1"
          /\ Tally(msgs[id])["fire"] = 1
          /\ Tally(msgs[id])["laugh"] = 1
    /\ \E id \in DOMAIN msgs : Tally(msgs[id])["thumbsup"] = 1

\* C20: the leaderboard is sorted by points in non-increasing order and has
\* at most 10 entries, and no table left out has more points than a listed
\* one; the TV display shows the first 5 entries of that list.
TopTenSorted ==
    last.op \in {"table-stats", "TVDisplay.fetchLeaderboard"} =>
        /\ Len(last.leaderboard) <= 10
        /\ Len(last.leaderboard)
              = (IF Cardinality(Scorers(msgs)) < 10
                 THEN Cardinality(Scorers(msgs)) ELSE 10)
        /\ \A i \in DOMAIN last.leaderboard, j \in DOMAIN last.leaderboard :
              i < j => last.leaderboard[i].points >= last.leaderboard[j].points
        /\ \A t \in Scorers(msgs) \ Listed(last.leaderboard) :
              \A i \in DOMAIN last.leaderboard :
                  last.leaderboard[i].points >= RulePoints(msgs, DOMAIN msgs, t)
        /\ last.op = "TVDisplay.fetchLeaderboard" =>
              /\ Len(last.shown) = (IF Len(last.leaderboard) < 5
                                    THEN Len(last.leaderboard) ELSE 5)
              /\ \A i \in DOMAIN last.shown :
                    last.shown[i] = last.leaderboard[i]

TopTenSortedWitness ==
    /\ last.op = "TVDisplay.fetchLeaderboard"
    /\ Cardinality(Scorers(msgs)) > 10
    /\ Len(last.leaderboard) = 10
    /\ Len(last.shown) = 5
    /\ last.leaderboard[1].points > last.leaderboard[10].points
    /\ \E t \in Scorers(msgs) \ Listed(last.leaderboard) :
          RulePoints(msgs, DOMAIN msgs, t) < last.leaderboard[10].points

----------------------------------------------------------------------------
(* Key-value server: the leaderboard while messages are sent and reactions *)
(* toggled.                                                                *)

ScoreKinds == {"heart", "laugh"}

NextScore ==
    \/ /\ nextMsg < MaxScoreMsgs
       /\ \E f \in Tables : SendMessage(f, OtherTable(f))
    \/ \E m \in DOMAIN msgs, t \in Tables, k \in ScoreKinds :
          AddReaction(m, t, k)
    \/ TableStats

SpecScore == InitPlaying /\ [][NextScore]_vars

\* The points (in tenths) the leaderboard computed over store m lists for
\* table t; 0 when t is not listed.
BoardScore(m, t) ==
    LET ids == Ascending(DOMAIN m)
        list == Leaderboard([i \in DOMAIN ids |-> m[ids[i]]])
        at == {i \in DOMAIN list : list[i].tableId = t}
    IN IF at = {} THEN 0 ELSE list[CHOOSE i \in at : TRUE].points

\* The point value of a reaction kind, in tenths.
KindValue(k) ==
    CASE k = "heart" -> 20 [] k = "fire" -> 15 [] k = "thumbsup" -> 10
      [] k = "laugh" -> 5

\* The add-reaction calls after which the calling table holds a marker.
AddingStep == last'.op = "add-reaction" /\ last'.status = 200
              /\ last'.userReaction # NULL

\* C18 as stated: an add-reaction call after which the calling table holds
\* a marker never lowers the leaderboard score of the message's origin table.
AddNeverLowersStep ==
    AddingStep =>
        BoardScore(msgs', msgs[last'.m].fromTable)
           >= BoardScore(msgs, msgs[last'.m].fromTable)

AddNeverLowers == [][AddNeverLowersStep]_vars

\* C18: an add-reaction call after which the calling table holds a marker
\* raises the score of the message's origin table by the value of the kind
\* when the table held no marker before, and changes it by the value of the
\* new kind minus the value of the replaced kind when it held another one;
\* so it never lowers the score unless it replaces a kind worth more.
AddChangesByValueStep ==
    AddingStep =>
        LET origin == msgs[last'.m].fromTable
            change == BoardScore(msgs', origin) - BoardScore(msgs, origin)
        IN /\ last'.held = {} => change = KindValue(last'.kind)
           /\ \A kprev \in last'.held :
                 change = KindValue(last'.kind) - KindValue(kprev)
           /\ change < 0 =>
                 \E kprev \in last'.held :
                     KindValue(kprev) > KindValue(last'.kind)

AddChangesByValue == [][AddChangesByValueStep]_vars

\* A1 has just put a heart on a message of B2 that already held a laugh of
\* B2: B2's score is 0.5 + 2.0 + 0.5.
AddChangesByValueWitness ==
    /\ last.op = "add-reaction"
    /\ last.table = "A1"
    /\ last.kind = "heart"
    /\ last.held = {}
    /\ last.userReaction = "heart"
    /\ msgs[last.m].fromTable = "B2"
    /\ Tally(msgs[last.m])["laugh"] = 1
    /\ BoardScore(msgs, "B2") = 30

\* C19: a successful send-message from table X raises X's leaderboard score
\* by exactly 0.5 and leaves the score of every other table unchanged.
SendRaisesByHalfStep ==
    (last'.op = "send-message" /\ last'.status = 200) =>
        \A t \in Tables :
            BoardScore(msgs', t)
               = BoardScore(msgs, t) + (IF t = last'.table THEN 5 ELSE 0)

SendRaisesByHalf == [][SendRaisesByHalfStep]_vars

\* A1 has just sent its second message; its first one holds a heart.
SendRaisesByHalfWitness ==
    /\ last.op = "send-message"
    /\ last.table = "A1"
    /\ last.m = 2
    /\ msgs[1].fromTable = "A1"
    /\ Tally(msgs[1])["heart"] = 1
    /\ BoardScore(msgs, "A1") = 30
    /\ BoardScore(msgs, "B2") = 0

----------------------------------------------------------------------------
(* Key-value server: add-reaction requests that overlap.                   *)
(* The handler awaits twice on the store: kv.get of the message, then      *)
(* kv.set of the whole modified message object.                            *)

Slots == 1..MaxReqs
InFlight == {r \in DOMAIN reqs : reqs[r].pc # "done"}
AllDone == DOMAIN reqs # {} /\ InFlight = {}

\* A request arrives and passes validation; its kv.get is pending.  `pre`
\* is the stored message when the first request of the overlapping batch
\* arrived (history, for comparison with sequential executions).
ReactionBegin(r, messageId, tableNumber, reaction) ==
    /\ r \notin DOMAIN reqs
    /\ \A q \in DOMAIN reqs : reqs[q].pc # "done" /\ reqs[q].m = messageId
    /\ messageId \in DOMAIN msgs
    /\ reaction \in Kinds
    /\ reqs' = [q \in DOMAIN reqs \cup {r} |->
                  IF q = r
                  THEN [op |-> "add-reaction", pc |-> "get", m |-> messageId,
                        table |-> tableNumber, kind |-> reaction,
                        message |-> <<>>,
                        pre |-> IF DOMAIN reqs = {} THEN msgs[messageId]
                                ELSE reqs[CHOOSE q2 \in DOMAIN reqs : TRUE].pre]
                  ELSE reqs[q]]
    /\ UNCHANGED users
    /\ UNCHANGED gameAt
    /\ UNCHANGED auth
    /\ twice' = Forget(twice)
    /\ UNCHANGED <<kvVars, now, backendVars, last>>

\* const message = await kv.get(`message:${messageId}`)
ReactionGet(r) ==
    /\ r \in DOMAIN reqs /\ reqs[r].op = "add-reaction" /\ reqs[r].pc = "get"
    /\ reqs[r].m \in DOMAIN msgs
    /\ reqs' = [reqs EXCEPT ![r].pc = "set", ![r].message = msgs[reqs[r].m]]
    /\ UNCHANGED users
    /\ UNCHANGED gameAt
    /\ UNCHANGED auth
    /\ twice' = Forget(twice)
    /\ UNCHANGED <<kvVars, now, backendVars, last>>

\* await kv.set(`message:${messageId}`, message), then the response.
ReactionSet(r) ==
    /\ r \in DOMAIN reqs /\ reqs[r].op = "add-reaction" /\ reqs[r].pc = "set"
    /\ LET f == reqs[r]
           message == ApplyReaction(f.message, f.table, f.kind)
       IN /\ msgs' = [msgs EXCEPT ![f.m] = message]
          /\ last' = [op |-> "add-reaction", status |-> 200,
                      m |-> f.m, table |-> f.table, kind |-> f.kind,
                      reactions |-> message.reactions,
                      userReaction |-> UserReaction(message, f.table),
                      before |-> Tally(f.message),
                      held |-> Markers(f.message, f.table)]
    /\ reqs' = [reqs EXCEPT ![r].pc = "done"]
    /\ UNCHANGED users
    /\ UNCHANGED gameAt
    /\ UNCHANGED auth
    /\ twice' = Forget(twice)
    /\ UNCHANGED <<nextMsg, tableCodes, gameStatus, chVars, now, backendVars>>

\* The responses have been delivered; the frames are dropped.
RequestsClear ==
    /\ AllDone
    /\ reqs' = <<>>
    /\ UNCHANGED users
    /\ UNCHANGED gameAt
    /\ UNCHANGED auth
    /\ twice' = Forget(twice)
    /\ UNCHANGED <<kvVars, now, backendVars, last>>

NextRace ==
    \/ /\ DOMAIN reqs = {}
       /\ \/ \E t \in Tables : CreateTableCode(t)
          \/ StartGame
          \/ /\ nextMsg < MaxLedgerMsgs
             /\ \E f \in Tables, t \in Tables : SendMessage(f, t)
          \/ \E m \in DOMAIN msgs, t \in Tables, k \in Kinds : AddReaction(m, t, k)
    \/ \E r \in Slots, m \in DOMAIN msgs, t \in Tables, k \in Kinds :
          ReactionBegin(r, m, t, k)
    \/ \E r \in Slots : ReactionGet(r)
    \/ \E r \in Slots : ReactionSet(r)
    \/ RequestsClear

SpecRace == Init /\ [][NextRace]_vars

\* The stored messages two calls can leave when run one after the other.
SerialOutcomes(pre, f, g) ==
    { ApplyReaction(ApplyReaction(pre, f.table, f.kind), g.table, g.kind),
      ApplyReaction(ApplyReaction(pre, g.table, g.kind), f.table, f.kind) }

Counted(message) ==
    \A k \in Kinds :
        Tally(message)[k] =
           Cardinality({t \in Tables : <<t, k>> \in message.reactedTables})

\* C3: two simultaneous add-reaction calls for the same (message, table)
\* never double-count: under every interleaving of their store reads and
\* writes the final counters equal the number of tables holding each marker
\* and the stored message is the one some sequential execution of the two
\* calls leaves.
SameTableSerial ==
    \A r \in DOMAIN reqs, q \in DOMAIN reqs :
        (/\ AllDone /\ r # q
         /\ reqs[r].m = reqs[q].m /\ reqs[r].table = reqs[q].table)
        => /\ Counted(msgs[reqs[r].m])
           /\ msgs[reqs[r].m] \in SerialOutcomes(reqs[r].pre, reqs[r], reqs[q])

\* C25: two concurrent add-reaction calls by different tables on the same
\* message both take effect: under every interleaving of their store reads
\* and writes the stored message is the one some sequential execution of
\* the two calls leaves.
DifferentTablesSerial ==
    \A r \in DOMAIN reqs, q \in DOMAIN reqs :
        (/\ AllDone /\ r # q
         /\ reqs[r].m = reqs[q].m /\ reqs[r].table # reqs[q].table)
        => msgs[reqs[r].m] \in SerialOutcomes(reqs[r].pre, reqs[r], reqs[q])

\* C31: an add-reaction call by table t on message m changes only m's
\* counters and t's markers on m: the markers of the other tables on m, m's
\* id, origin, destination and timestamp, and every other message stay as
\* they were.
ToggleFrameStep ==
    (msgs' # msgs /\ last'.op = "add-reaction") =>
        /\ DOMAIN msgs' = DOMAIN msgs
        /\ \A i \in DOMAIN msgs : i # last'.m => msgs'[i] = msgs[i]
        /\ msgs'[last'.m].id = msgs[last'.m].id
        /\ msgs'[last'.m].fromTable = msgs[last'.m].fromTable
        /\ msgs'[last'.m].toTable = msgs[last'.m].toTable
        /\ msgs'[last'.m].timestamp = msgs[last'.m].timestamp
        /\ \A u \in Tables \ {last'.table} :
              Markers(msgs'[last'.m], u) = Markers(msgs[last'.m], u)

ToggleFrame == [][ToggleFrameStep]_vars

----------------------------------------------------------------------------
(* Key-value server: challenge requests that overlap.                      *)
(* A frame follows one of GET challenges/active ("list"), GET              *)
(* challenges/:id ("get") and POST admin/end-challenge/:id ("end") from    *)
(* one await on the store to the next; determineWinner is inlined.         *)

ChallengeOps == {"list", "get", "end"}

IsAt(r, pc) ==
    /\ r \in DOMAIN reqs
    /\ reqs[r].op \in ChallengeOps
    /\ reqs[r].pc = pc

\* The request arrives.
ChallengeBegin(r, op, challengeId) ==
    /\ r \notin DOMAIN reqs
    /\ \A q \in DOMAIN reqs : reqs[q].pc # "done"
    /\ op \in ChallengeOps
    /\ (op = "list") = (challengeId = 0)
    /\ reqs' = [q \in DOMAIN reqs \cup {r} |->
                  IF q = r
                  THEN [op |-> op, pc |-> IF op = "list" THEN "ids" ELSE "get",
                        c |-> challengeId, challenge |-> <<>>,
                        ids |-> <<>>, idx |-> 0, out |-> <<>>,
                        badges |-> <<>>, list |-> <<>>, status |-> 0,
                        failed |-> FALSE]
                  ELSE reqs[q]]
    /\ UNCHANGED users
    /\ UNCHANGED gameAt
    /\ UNCHANGED auth
    /\ twice' = Forget(twice)
    /\ UNCHANGED <<kvVars, now, backendVars, last>>

\* The response of a finished frame.
Response(f) ==
    CASE f.op = "list" -> [op |-> "challenges/active", status |-> f.status,
                           challenges |-> f.out]
      [] f.op = "get" -> [op |-> "challenges/:id", status |-> f.status,
                          c |-> f.c, challenge |-> f.challenge]
      [] f.op = "end" -> [op |-> "end-challenge", status |-> f.status,
                          c |-> f.c, challenge |-> f.challenge]

\* The frame of the list handler after the challenge at idx has been dealt
\* with: the next id of the loop, or the response.
NextInList(f) ==
    IF f.idx + 1 > Len(f.ids)
    THEN [f EXCEPT !.pc = "done", !.status = 200]
    ELSE [f EXCEPT !.pc = "get", !.idx = f.idx + 1, !.c = f.ids[f.idx + 1]]

\* The frame once the handler's own kv.set of the inactive challenge is done.
AfterSaveInactive(f) ==
    CASE f.op = "list" -> NextInList(f)
      [] f.op = "get" -> [f EXCEPT !.pc = "done", !.status = 200]
      [] f.op = "end" -> [f EXCEPT !.pc = "list-get"]

\* const activeChallengeIds = await kv.get("challenges:active") || []
ChallengeIdsGet(r) ==
    /\ IsAt(r, "ids")
    /\ LET f == NextInList([reqs[r] EXCEPT !.ids = activeList])
       IN /\ reqs' = [reqs EXCEPT ![r] = f]
          /\ last' = IF f.pc = "done" THEN Response(f) ELSE last
    /\ UNCHANGED users
    /\ UNCHANGED gameAt
    /\ UNCHANGED auth
    /\ twice' = Forget(twice)
    /\ UNCHANGED <<kvVars, now, backendVars>>

\* const challenge = await kv.get(`challenge:${challengeId}`) and the
\* checks that follow it.
ChallengeGet(r) ==
    /\ IsAt(r, "get")
    /\ LET f0 == reqs[r]
           found == f0.c \in DOMAIN challenges
           f1 == IF found THEN [f0 EXCEPT !.challenge = challenges[f0.c]]
                 ELSE f0
           f == CASE f0.op = "list" ->
                       IF found /\ f1.challenge.active
                       THEN IF Expired(f1.challenge)
                            THEN [f1 EXCEPT !.pc = "messages"]
                            ELSE NextInList([f1 EXCEPT !.out =
                                               Append(@, f1.challenge)])
                       ELSE NextInList(f1)
                  [] f0.op = "get" ->
                       IF ~found
                       THEN [f1 EXCEPT !.pc = "done", !.status = 404]
                       ELSE IF Expired(f1.challenge) /\ f1.challenge.active
                       THEN [f1 EXCEPT !.pc = "messages"]
                       ELSE [f1 EXCEPT !.pc = "done", !.status = 200]
                  [] f0.op = "end" ->
                       IF ~found
                       THEN [f1 EXCEPT !.pc = "done", !.status = 404]
                       ELSE IF ~f1.challenge.active
                       THEN [f1 EXCEPT !.pc = "done", !.status = 400]
                       ELSE [f1 EXCEPT !.pc = "messages"]
       IN /\ reqs' = [reqs EXCEPT ![r] = f]
          /\ last' = IF f.pc = "done" THEN Response(f) ELSE last
    /\ UNCHANGED users
    /\ UNCHANGED gameAt
    /\ UNCHANGED auth
    /\ twice' = Forget(twice)
    /\ UNCHANGED <<kvVars, now, backendVars>>

\* determineWinner: const allMessages = await kv.getByPrefix("message:"),
\* then results and winner are computed and set on the handler's challenge.
ChallengeMessagesGet(r, allMessages) ==
    /\ IsAt(r, "messages")
    /\ allMessages \in StoreOrders
    /\ LET decided == DetermineWinner(reqs[r].challenge, allMessages)
       IN reqs' = [reqs EXCEPT ![r].challenge = decided,
                               ![r].pc = IF decided.winner # NULL
                                         THEN "badges-get" ELSE "save-winner"]
    /\ UNCHANGED users
    /\ UNCHANGED gameAt
    /\ UNCHANGED auth
    /\ twice' = Forget(twice)
    /\ UNCHANGED <<kvVars, now, backendVars, last>>

\* determineWinner: const badges = await kv.get(`table:${winnerId}:badges`)
\* || [], then badges.push(...)
ChallengeBadgesGet(r) ==
    /\ IsAt(r, "badges-get")
    /\ reqs' = [reqs EXCEPT ![r].badges =
                               Append(badges[reqs[r].challenge.winner],
                                      NewBadge(reqs[r].c, reqs[r].challenge)),
                            ![r].pc = "badges-set"]
    /\ UNCHANGED users
    /\ UNCHANGED gameAt
    /\ UNCHANGED auth
    /\ twice' = Forget(twice)
    /\ UNCHANGED <<kvVars, now, backendVars, last>>

\* determineWinner: await kv.set(`table:${winnerId}:badges`, badges)
ChallengeBadgesSet(r) ==
    /\ IsAt(r, "badges-set")
    /\ badges' = [badges EXCEPT ![reqs[r].challenge.winner] = reqs[r].badges]
    /\ reqs' = [reqs EXCEPT ![r].pc = "save-winner"]
    /\ UNCHANGED users
    /\ UNCHANGED gameAt
    /\ UNCHANGED auth
    /\ twice' = Forget(twice)
    /\ UNCHANGED <<msgs, nextMsg, tableCodes, gameStatus, challenges,
                   activeList, now, backendVars, last>>

\* determineWinner: await kv.set(`challenge:${challengeId}`, challenge); the
\* handler has not yet set challenge.active = false.
ChallengeSaveWinner(r) ==
    /\ IsAt(r, "save-winner")
    /\ challenges' = [challenges EXCEPT ![reqs[r].c] = reqs[r].challenge]
    /\ reqs' = [reqs EXCEPT ![r].pc = "save-inactive"]
    /\ UNCHANGED users
    /\ UNCHANGED gameAt
    /\ UNCHANGED auth
    /\ twice' = Forget(twice)
    /\ UNCHANGED <<msgs, nextMsg, tableCodes, gameStatus, activeList, badges,
                   now, backendVars, last>>

\* challenge.active = false; await kv.set(`challenge:${challengeId}`,
\* challenge)
ChallengeSaveInactive(r) ==
    /\ IsAt(r, "save-inactive")
    /\ LET ended == [reqs[r].challenge EXCEPT !.active = FALSE]
           f == AfterSaveInactive([reqs[r] EXCEPT !.challenge = ended])
       IN /\ challenges' = [challenges EXCEPT ![reqs[r].c] = ended]
          /\ reqs' = [reqs EXCEPT ![r] = f]
          /\ last' = IF f.pc = "done" THEN Response(f) ELSE last
    /\ UNCHANGED users
    /\ UNCHANGED gameAt
    /\ UNCHANGED auth
    /\ twice' = Forget(twice)
    /\ UNCHANGED <<msgs, nextMsg, tableCodes, gameStatus, activeList, badges,
                   now, backendVars>>

\* end-challenge: const activeChallenges = await kv.get("challenges:active")
ChallengeListGet(r) ==
    /\ IsAt(r, "list-get")
    /\ reqs' = [reqs EXCEPT ![r].list = activeList, ![r].pc = "list-set"]
    /\ UNCHANGED users
    /\ UNCHANGED gameAt
    /\ UNCHANGED auth
    /\ twice' = Forget(twice)
    /\ UNCHANGED <<kvVars, now, backendVars, last>>

\* end-challenge: await kv.set("challenges:active", updatedList), then the
\* response.
ChallengeListSet(r) ==
    /\ IsAt(r, "list-set")
    /\ activeList' = SelectSeq(reqs[r].list, LAMBDA id : id # reqs[r].c)
    /\ LET f == [reqs[r] EXCEPT !.pc = "done", !.status = 200]
       IN /\ reqs' = [reqs EXCEPT ![r] = f]
          /\ last' = Response(f)
    /\ UNCHANGED users
    /\ UNCHANGED gameAt
    /\ UNCHANGED auth
    /\ twice' = Forget(twice)
    /\ UNCHANGED <<msgs, nextMsg, tableCodes, gameStatus, challenges, badges,
                   now, backendVars>>

NextResolve ==
    \/ /\ DOMAIN reqs = {}
       /\ \/ /\ nextMsg < MaxChalMsgs
             /\ \E f \in Tables, t \in Tables : SendMessage(f, t)
          \/ Tick
          \/ /\ Cardinality(DOMAIN challenges) < MaxChallenges
             /\ \E type \in ChallengeTypes, d \in 1..MaxDuration :
                   CreateChallenge(type, d, Trophy)
    \/ \E r \in Slots : ChallengeBegin(r, "list", 0)
    \/ \E r \in Slots, c \in ChallengeIds, op \in {"get", "end"} :
          ChallengeBegin(r, op, c)
    \/ \E r \in Slots : ChallengeIdsGet(r)
    \/ \E r \in Slots : ChallengeGet(r)
    \/ \E r \in Slots, allMessages \in StoreOrders :
          ChallengeMessagesGet(r, allMessages)
    \/ \E r \in Slots : ChallengeBadgesGet(r)
    \/ \E r \in Slots : ChallengeBadgesSet(r)
    \/ \E r \in Slots : ChallengeSaveWinner(r)
    \/ \E r \in Slots : ChallengeSaveInactive(r)
    \/ \E r \in Slots : ChallengeListGet(r)
    \/ \E r \in Slots : ChallengeListSet(r)
    \/ RequestsClear

SpecResolve == InitPlaying /\ [][NextResolve]_vars

\* C4: resolving the same challenge twice, one request after the other or
\* two overlapping requests under every interleaving of their store reads and
\* writes, yields exactly one badge-award record for the challenge (none
\* when it has no winner).
OneBadgePerChallenge ==
    \A c \in DOMAIN challenges :
        /\ BadgeCount(c) <= 1
        /\ (~challenges[c].active /\ challenges[c].winner # NULL)
              => BadgeCount(c) = 1

\* C7: the active flag of a challenge goes from true to false once and never
\* returns to true; once a challenge is inactive no later operation changes
\* any of its fields.
InactiveIsFinalStep ==
    \A c \in DOMAIN challenges :
        ~challenges[c].active =>
            (c \in DOMAIN challenges' /\ challenges'[c] = challenges[c])

InactiveIsFinal == [][InactiveIsFinalStep]_vars

----------------------------------------------------------------------------
(* Key-value server: a store write that fails during a resolution.  One    *)
(* challenge request at a time, followed from await to await; a kv.set may *)
(* throw instead of writing.  The frame records in failed that a store     *)
(* operation of the request has thrown.                                    *)

\* determineWinner: kv.set(`table:${winnerId}:badges`, badges) throws; the
\* catch of determineWinner logs the error and the handler goes on with
\* challenge.active = false (challenge.winner and challenge.results are
\* already assigned).
ChallengeBadgesSetFails(r) ==
    /\ IsAt(r, "badges-set")
    /\ reqs' = [reqs EXCEPT ![r].pc = "save-inactive", ![r].failed = TRUE]
    /\ UNCHANGED users
    /\ UNCHANGED gameAt
    /\ UNCHANGED auth
    /\ twice' = Forget(twice)
    /\ UNCHANGED <<kvVars, now, backendVars, last>>

\* The handler's kv.set of the inactive challenge throws: the list handler
\* catches it and continues with the next id, the other two answer 500.
\* (The challenge stays active and is resolved again by a later request; the
\* guard on the number of badge records keeps the badge lists bounded.)
ChallengeSaveInactiveFails(r) ==
    /\ IsAt(r, "save-inactive")
    /\ BadgeCount(reqs[r].c) <= MaxAwards
    /\ LET f == IF reqs[r].op = "list"
                THEN NextInList([reqs[r] EXCEPT !.failed = TRUE])
                ELSE [reqs[r] EXCEPT !.pc = "done", !.status = 500,
                                     !.failed = TRUE]
       IN /\ reqs' = [reqs EXCEPT ![r] = f]
          /\ last' = IF f.pc = "done" THEN Response(f) ELSE last
    /\ UNCHANGED users
    /\ UNCHANGED gameAt
    /\ UNCHANGED auth
    /\ twice' = Forget(twice)
    /\ UNCHANGED <<kvVars, now, backendVars>>

NextFail ==
    \/ /\ DOMAIN reqs = {}
       /\ \/ /\ nextMsg < MaxChalMsgs
             /\ \E f \in Tables, t \in Tables : SendMessage(f, t)
          \/ Tick
          \/ /\ Cardinality(DOMAIN challenges) < MaxChallenges
             /\ \E type \in ChallengeTypes, d \in 1..MaxDuration :
                   CreateChallenge(type, d, Trophy)
          \/ ChallengeBegin(1, "list", 0)
          \/ \E c \in ChallengeIds, op \in {"get", "end"} :
                ChallengeBegin(1, op, c)
    \/ ChallengeIdsGet(1)
    \/ ChallengeGet(1)
    \/ \E allMessages \in StoreOrders : ChallengeMessagesGet(1, allMessages)
    \/ ChallengeBadgesGet(1)
    \/ ChallengeBadgesSet(1)
    \/ ChallengeBadgesSetFails(1)
    \/ ChallengeSaveWinner(1)
    \/ ChallengeSaveInactive(1)
    \/ ChallengeSaveInactiveFails(1)
    \/ ChallengeListGet(1)
    \/ ChallengeListSet(1)
    \/ RequestsClear

SpecFail == InitPlaying /\ [][NextFail]_vars

\* C14: whenever no request is under way, also after a store write failed
\* part-way through a resolution, every inactive challenge with a winner has
\* exactly one badge record referencing it, in the winner's list, and every
\* badge record references an inactive challenge won by the table that holds
\* the record.
BadgeIffWinner ==
    DOMAIN reqs = {} =>
        /\ \A c \in DOMAIN challenges :
              (~challenges[c].active /\ challenges[c].winner # NULL) =>
                  /\ BadgeCount(c) = 1
                  /\ CountFor(badges[challenges[c].winner], c, 1) = 1
        /\ \A t \in Tables : \A i \in DOMAIN badges[t] :
              /\ badges[t][i].challengeId \in DOMAIN challenges
              /\ ~challenges[badges[t][i].challengeId].active
              /\ challenges[badges[t][i].challengeId].winner = t

----------------------------------------------------------------------------
(* Key-value server: the badge lists under every operation.  Two           *)
(* most_messages challenges were created in minute 1, table A1 sent one    *)
(* message in that minute and both challenges have expired; challenge      *)
(* requests overlap, the other handlers run between them.                  *)

InitAwards ==
    /\ msgs = <<MessageAt(1, "A1", "B2", 1)>>
    /\ nextMsg = 1
    /\ tableCodes = Tables
    /\ gameStatus = "active"
    /\ challenges = [c \in 1..2 |->
                       [id |-> c, title |-> Medal.title,
                        type |-> "most_messages", startedAt |-> 1,
                        endsAt |-> 2, active |-> TRUE,
                        badgeName |-> Medal.badgeName,
                        badgeEmoji |-> Medal.badgeEmoji,
                        winner |-> NULL, results |-> <<>>]]
    /\ activeList = <<1, 2>>
    /\ badges = [t \in Tables |-> <<>>]
    /\ now = 3
    /\ bmsgs = <<>>
    /\ btables = {}
    /\ bstatus = "not_started"
    /\ bcodes = CodesOf(btables)
    /\ reqs = <<>>
    /\ last = NoCall
    /\ users = NoUsers
    /\ gameAt = GameAtFor(gameStatus)
    /\ auth = NoAuth
    /\ twice = TwiceOff

NextAwards ==
    \/ /\ DOMAIN reqs = {}
       /\ \/ ResetGame
          \/ \E t \in Tables : DeleteTable(t)
          \/ \E t \in Tables : CreateTableCode(t)
          \/ \E m \in DOMAIN msgs : AddReaction(m, "B2", "heart")
    \/ \E r \in Slots : ChallengeBegin(r, "list", 0)
    \/ \E r \in Slots, c \in DOMAIN challenges, op \in {"get", "end"} :
          ChallengeBegin(r, op, c)
    \/ \E r \in Slots : ChallengeIdsGet(r)
    \/ \E r \in Slots : ChallengeGet(r)
    \/ \E r \in Slots, allMessages \in StoreOrders :
          ChallengeMessagesGet(r, allMessages)
    \/ \E r \in Slots : ChallengeBadgesGet(r)
    \/ \E r \in Slots : ChallengeBadgesSet(r)
    \/ \E r \in Slots : ChallengeSaveWinner(r)
    \/ \E r \in Slots : ChallengeSaveInactive(r)
    \/ \E r \in Slots : ChallengeListGet(r)
    \/ \E r \in Slots : ChallengeListSet(r)
    \/ RequestsClear

SpecAwards == InitAwards /\ [][NextAwards]_vars

\* C15: every operation leaves each table's badge list as it was or appends
\* one record to it; no existing record is removed or altered.
AppendOnlyStep ==
    \A t \in Tables :
        /\ Len(badges'[t]) >= Len(badges[t])
        /\ Len(badges'[t]) <= Len(badges[t]) + 1
        /\ SubSeq(badges'[t], 1, Len(badges[t])) = badges[t]

AppendOnly == [][AppendOnlyStep]_vars

\* C37: when two different challenges won by the same table are resolved
\* by overlapping requests, the table's badge list ends up with a record
\* for each of them, under every interleaving of the reads and writes of
\* the list.
BothAwarded ==
    AllDone =>
        \A c \in DOMAIN challenges :
            (~challenges[c].active /\ challenges[c].winner # NULL) =>
                CountFor(badges[challenges[c].winner], c, 1) >= 1

----------------------------------------------------------------------------
(* Express/Prisma backend: messages and /api/add-reaction *)

reactionFieldMap ==
    [heart |-> "reactionsHeart", thumbsup |-> "reactionsThumbsup",
     fire |-> "reactionsFire", laugh |-> "reactionsLaugh"]

\* The row prisma.message.create stores: the handler sets no reaction
\* column, so the counters start at the column default 0 and reactedTables
\* at the empty JSON object (the set of its keys is modelled; a key
\* "<table>_<kind>" is the pair <<table, kind>>).
NewRow(id, fromTableId, toTableId) ==
    [id |-> id, fromTableId |-> fromTableId, toTableId |-> toTableId,
     reactionsHeart |-> 0, reactionsThumbsup |-> 0,
     reactionsFire |-> 0, reactionsLaugh |-> 0,
     reactedTables |-> {}]

\* The kinds for which table t holds a marker on the row.
RowMarkers(row, t) == {k \in Kinds : <<t, k>> \in row.reactedTables}

\* The codes in use, per kind of entity.
TableCodesInUse == {bcodes.table[t] : t \in DOMAIN bcodes.table}
StaffCodesInUse == {bcodes.staff[i] : i \in DOMAIN bcodes.staff}

\* POST /api/admin/create-table-code with an id and a code: the handler
\* looks the id up and creates the row; the code is compared with nothing.
\* (Table.code is a unique column: prisma.table.create fails on a code
\* another table has.)
BackendCreateTable(tableId, code) ==
    /\ tableId \notin btables
    /\ code \notin TableCodesInUse
    /\ btables' = btables \cup {tableId}
    /\ bcodes' = [bcodes EXCEPT !.table =
                     [t \in btables \cup {tableId} |->
                        IF t = tableId THEN code ELSE bcodes.table[t]]]
    /\ last' = [op |-> "api/create-table-code", status |-> 200,
                table |-> tableId]
    /\ UNCHANGED users
    /\ UNCHANGED gameAt
    /\ UNCHANGED auth
    /\ twice' = Forget(twice)
    /\ UNCHANGED <<kvVars, now, bmsgs, bstatus, reqs>>

\* POST /api/admin/create-table-code
BackendCreateTableCode(tableId) ==
    /\ tableId \notin btables
    /\ btables' = btables \cup {tableId}
    /\ bcodes' = [bcodes EXCEPT !.table =
                     [t \in btables \cup {tableId} |->
                        IF t = tableId THEN JoinCode[t] ELSE bcodes.table[t]]]
    /\ last' = [op |-> "api/create-table-code", status |-> 200, table |-> tableId]
    /\ UNCHANGED users
    /\ UNCHANGED gameAt
    /\ UNCHANGED auth
    /\ twice' = Forget(twice)
    /\ UNCHANGED <<kvVars, now, bmsgs, bstatus, reqs>>

\* POST /api/admin/start-game
BackendStartGame ==
    /\ bstatus # "active"
    /\ bstatus' = "active"
    /\ last' = [op |-> "api/start-game", status |-> 200]
    /\ UNCHANGED users
    /\ UNCHANGED bcodes
    /\ UNCHANGED gameAt
    /\ UNCHANGED auth
    /\ twice' = Forget(twice)
    /\ UNCHANGED <<kvVars, now, bmsgs, btables, reqs>>

\* POST /api/send-message, accepted.
BackendSendMessage(fromTable, toTable) ==
    /\ fromTable # toTable
    /\ toTable \in btables
    /\ bstatus = "active"
    /\ LET id == Cardinality(DOMAIN bmsgs) + 1
       IN /\ bmsgs' = [i \in DOMAIN bmsgs \cup {id} |->
                         IF i = id THEN NewRow(id, fromTable, toTable)
                         ELSE bmsgs[i]]
          /\ last' = [op |-> "api/send-message", status |-> 200, m |-> id,
                      table |-> fromTable]
    /\ UNCHANGED users
    /\ UNCHANGED bcodes
    /\ UNCHANGED gameAt
    /\ UNCHANGED auth
    /\ twice' = Forget(twice)
    /\ UNCHANGED <<kvVars, now, btables, bstatus, reqs>>

\* The columns /api/add-reaction updates on the row it read: the counter of
\* the requested kind and reactedTables.  Only the marker of the requested
\* kind is looked at.
UpdateRow(message, tableNumber, reaction) ==
    LET reactionKey == <<tableNumber, reaction>>
        field == reactionFieldMap[reaction]
    IN IF reactionKey \in message.reactedTables
       THEN [message EXCEPT ![field] = Max(0, @ - 1),
                            !.reactedTables = @ \ {reactionKey}]
       ELSE [message EXCEPT ![field] = @ + 1,
                            !.reactedTables = @ \cup {reactionKey}]

\* POST /api/add-reaction on an existing row with a valid reaction.
BackendAddReaction(messageId, tableNumber, reaction) ==
    /\ messageId \in DOMAIN bmsgs
    /\ reaction \in Kinds
    /\ LET row == UpdateRow(bmsgs[messageId], tableNumber, reaction)
       IN /\ bmsgs' = [bmsgs EXCEPT ![messageId] = row]
          /\ last' = [op |-> "api/add-reaction", status |-> 200,
                      m |-> messageId, table |-> tableNumber, kind |-> reaction,
                      reactions |-> [k \in Kinds |-> row[reactionFieldMap[k]]],
                      held |-> RowMarkers(bmsgs[messageId], tableNumber)]
    /\ UNCHANGED users
    /\ UNCHANGED bcodes
    /\ UNCHANGED gameAt
    /\ UNCHANGED auth
    /\ twice' = Forget(twice)
    /\ UNCHANGED <<kvVars, now, btables, bstatus, reqs>>

\* The loop of /api/admin/table-stats over the rows findMany selected (those
\* with a sender; /api/send-message stores no broadcast): one more message
\* for the sender of each row.  Only fromTableId is selected.
RECURSIVE BackendStatsLoop(_, _, _)
BackendStatsLoop(stats, messages, i) ==
    IF i > Len(messages) THEN stats
    ELSE LET msg == messages[i]
         IN BackendStatsLoop(IF msg.fromTableId # NULL
                             THEN Put(stats, msg.fromTableId,
                                      (IF Has(stats, msg.fromTableId)
                                       THEN stats.val[msg.fromTableId] ELSE 0)
                                      + 1)
                             ELSE stats,
                             messages, i + 1)

\* Object.entries(stats).map(...): an entry is {tableId, messageCount}.
BackendEntries(stats) ==
    [i \in 1..Len(stats.keys) |->
        [tableId |-> stats.keys[i],
         messageCount |-> stats.val[stats.keys[i]]]]

\* Array.prototype.sort with (a, b) => b.messageCount - a.messageCount
RECURSIVE InsertByCount(_, _)
InsertByCount(sorted, entry) ==
    IF sorted = <<>> THEN <<entry>>
    ELSE IF Head(sorted).messageCount > entry.messageCount
    THEN <<Head(sorted)>> \o InsertByCount(Tail(sorted), entry)
    ELSE <<entry>> \o sorted

RECURSIVE SortByCount(_, _)
SortByCount(entries, i) ==
    IF i > Len(entries) THEN <<>>
    ELSE InsertByCount(SortByCount(entries, i + 1), entries[i])

\* The leaderboard /api/admin/table-stats answers with, over the rows in
\* the order of their ids.
BackendLeaderboard(rows) ==
    LET ids == Ascending(DOMAIN rows)
        messages == [i \in DOMAIN ids |-> rows[ids[i]]]
    IN Slice(SortByCount(BackendEntries(
                 BackendStatsLoop(EmptyObj, messages, 1)), 1), TopTen)

\* GET /api/admin/table-stats
BackendTableStats ==
    /\ last' = [op |-> "api/table-stats", status |-> 200,
                leaderboard |-> BackendLeaderboard(bmsgs)]
    /\ UNCHANGED users
    /\ UNCHANGED bcodes
    /\ UNCHANGED gameAt
    /\ UNCHANGED auth
    /\ twice' = Forget(twice)
    /\ UNCHANGED <<kvVars, now, bmsgs, btables, bstatus, reqs>>

NextBackend ==
    \/ \E t \in Tables : BackendCreateTableCode(t)
    \/ BackendStartGame
    \/ /\ Cardinality(DOMAIN bmsgs) < MaxBackendMsgs
       /\ \E f \in Tables, t \in Tables : BackendSendMessage(f, t)
    \/ \E m \in DOMAIN bmsgs, t \in Tables, k \in Kinds :
          BackendAddReaction(m, t, k)
    \/ BackendTableStats

SpecBackend == Init /\ [][NextBackend]_vars

\* C2: in the backend, after any sequence of /api/add-reaction calls, a
\* table holds at most one reaction-kind marker on a message: reacting with
\* another kind replaces the table's previous reaction.
BackendExclusive ==
    \A m \in DOMAIN bmsgs :
        \A t \in Tables : Cardinality(RowMarkers(bmsgs[m], t)) <= 1

\* The figure, in tenths, of the entry the backend leaderboard over rows
\* lists for table t (0 when t is not listed): the entry carries no points,
\* its only number is messageCount.
BackendFigure(rows, t) ==
    LET list == BackendLeaderboard(rows)
        at == {i \in DOMAIN list : list[i].tableId = t}
    IN IF at = {} THEN 0
       ELSE list[CHOOSE i \in at : TRUE].messageCount * 10

\* C17: in the backend, an /api/add-reaction call that adds a reaction to a
\* message from table X changes X's entry in the leaderboard of
\* /api/admin/table-stats by the point value of the reaction (2.0 for a
\* heart).
BackendBoardLiveStep ==
    (/\ last'.op = "api/add-reaction"
     /\ last'.status = 200
     /\ last'.kind \notin last'.held) =>
        LET origin == bmsgs[last'.m].fromTableId
        IN BackendFigure(bmsgs', origin) - BackendFigure(bmsgs, origin)
              = KindValue(last'.kind)

BackendBoardLive == [][BackendBoardLiveStep]_vars

----------------------------------------------------------------------------
(* add-reaction requests the two servers refuse.  The key-value server and *)
(* the backend are separate deployments with separate stores: the initial  *)
(* state has the game running on one of them.                              *)

\* A plausible slip: the message is looked up before the kind is checked.
AddReactionRejectedLookupFirst(messageId, tableNumber, reaction) ==
    /\ messageId \notin DOMAIN msgs \/ reaction \notin Kinds
    /\ last' = [op |-> "add-reaction",
                status |-> IF messageId \notin DOMAIN msgs THEN 404 ELSE 400,
                m |-> messageId, table |-> tableNumber, kind |-> reaction]
    /\ UNCHANGED users
    /\ UNCHANGED gameAt
    /\ UNCHANGED auth
    /\ twice' = Forget(twice)
    /\ UNCHANGED <<kvVars, now, backendVars, reqs>>

\* POST add-reaction, refused: the reaction is not one of validReactions
\* (400), or else kv.get finds no message (404).  Both return before any
\* kv.set.
AddReactionRejected(messageId, tableNumber, reaction) ==
    /\ messageId \notin DOMAIN msgs \/ reaction \notin Kinds
    /\ last' = [op |-> "add-reaction",
                status |-> IF reaction \notin Kinds THEN 400 ELSE 404,
                m |-> messageId, table |-> tableNumber, kind |-> reaction]
    /\ UNCHANGED users
    /\ UNCHANGED gameAt
    /\ UNCHANGED auth
    /\ twice' = Forget(twice)
    /\ UNCHANGED <<kvVars, now, backendVars, reqs>>

\* POST /api/add-reaction, refused: the same two checks in the same order,
\* before prisma.message.update.
BackendAddReactionRejected(messageId, tableNumber, reaction) ==
    /\ messageId \notin DOMAIN bmsgs \/ reaction \notin Kinds
    /\ last' = [op |-> "api/add-reaction",
                status |-> IF reaction \notin Kinds THEN 400 ELSE 404,
                m |-> messageId, table |-> tableNumber, kind |-> reaction]
    /\ UNCHANGED users
    /\ UNCHANGED gameAt
    /\ UNCHANGED auth
    /\ twice' = Forget(twice)
    /\ UNCHANGED <<kvVars, now, backendVars, reqs>>

\* The backend once the admin has created the tables and started the game.
InitBackendPlaying ==
    /\ msgs = <<>>
    /\ nextMsg = 0
    /\ tableCodes = {}
    /\ gameStatus = "not_started"
    /\ challenges = <<>>
    /\ activeList = <<>>
    /\ badges = [t \in Tables |-> <<>>]
    /\ now = 1
    /\ bmsgs = <<>>
    /\ btables = Tables
    /\ bstatus = "active"
    /\ bcodes = CodesOf(btables)
    /\ reqs = <<>>
    /\ last = NoCall
    /\ users = NoUsers
    /\ gameAt = GameAtFor(gameStatus)
    /\ auth = NoAuth
    /\ twice = TwiceOff

InitInvalid == InitPlaying \/ InitBackendPlaying

\* The kinds requested: two valid ones and one that is not a reaction.
RequestedKinds == ScoreKinds \cup {"star"}

NextInvalid ==
    \/ /\ nextMsg < MaxInvalidMsgs
       /\ \E f \in Tables : SendMessage(f, OtherTable(f))
    \/ \E m \in 1..(MaxInvalidMsgs + 1), t \in Tables, k \in RequestedKinds :
          AddReaction(m, t, k)
    \/ \E m \in 1..(MaxInvalidMsgs + 1), t \in Tables, k \in RequestedKinds :
          AddReactionRejected(m, t, k)
    \/ /\ Cardinality(DOMAIN bmsgs) < MaxInvalidMsgs
       /\ \E f \in Tables : BackendSendMessage(f, OtherTable(f))
    \/ \E m \in 1..(MaxInvalidMsgs + 1), t \in Tables, k \in RequestedKinds :
          BackendAddReaction(m, t, k)
    \/ \E m \in 1..(MaxInvalidMsgs + 1), t \in Tables, k \in RequestedKinds :
          BackendAddReactionRejected(m, t, k)

SpecInvalid == InitInvalid /\ [][NextInvalid]_vars

\* C22: on both servers an add-reaction call whose kind is not heart,
\* thumbsup, fire or laugh answers 400, also when the message does not
\* exist, and a call with a valid kind for a message that does not exist
\* answers 404; in both cases no tally, no marker set and no message
\* changes and no message is created.
InvalidReactionStep ==
    /\ (last'.op = "add-reaction") =>
          /\ last'.kind \notin Kinds =>
                last'.status = 400 /\ UNCHANGED <<msgs, nextMsg>>
          /\ (last'.kind \in Kinds /\ last'.m \notin DOMAIN msgs) =>
                last'.status = 404 /\ UNCHANGED <<msgs, nextMsg>>
    /\ (last'.op = "api/add-reaction") =>
          /\ last'.kind \notin Kinds =>
                last'.status = 400 /\ UNCHANGED bmsgs
          /\ (last'.kind \in Kinds /\ last'.m \notin DOMAIN bmsgs) =>
                last'.status = 404 /\ UNCHANGED bmsgs

InvalidReaction == [][InvalidReactionStep]_vars

\* An add-reaction call with an invalid kind for a message that does not
\* exist has just been refused with 400, while the stored message holds a
\* heart.
InvalidReactionWitness ==
    /\ last.op = "add-reaction"
    /\ last.status = 400
    /\ last.kind \notin Kinds
    /\ last.m \notin DOMAIN msgs
    /\ 1 \in DOMAIN msgs
    /\ Tally(msgs[1])["heart"] = 1

----------------------------------------------------------------------------
(* create-challenge requests with valid and with invalid fields *)

\* A plausible slip: the upper limit of the duration is excluded.
CreateChallengeRejectedAtLimit(type, durationMinutes, prize) ==
    /\ \/ type \notin ChallengeTypes
       \/ durationMinutes < 1
       \/ durationMinutes >= 60
    /\ last' = [op |-> "create-challenge", status |-> 400, type |-> type,
                durationMinutes |-> durationMinutes]
    /\ UNCHANGED users
    /\ UNCHANGED gameAt
    /\ UNCHANGED auth
    /\ twice' = Forget(twice)
    /\ UNCHANGED <<kvVars, now, backendVars, reqs>>

\* POST admin/create-challenge, refused with 400: durationMinutes is 0 (a
\* missing field), the type is not one of validTypes, or the duration is
\* below 1 or above 60.  All three return before the first kv.set.
CreateChallengeRejected(type, durationMinutes, prize) ==
    /\ \/ durationMinutes = 0
       \/ type \notin ChallengeTypes
       \/ durationMinutes < 1
       \/ durationMinutes > 60
    /\ last' = [op |-> "create-challenge", status |-> 400, type |-> type,
                durationMinutes |-> durationMinutes]
    /\ UNCHANGED users
    /\ UNCHANGED gameAt
    /\ UNCHANGED auth
    /\ twice' = Forget(twice)
    /\ UNCHANGED <<kvVars, now, backendVars, reqs>>

\* The types and durations requested.
RequestedTypes == ChallengeTypes \cup {"most_badges"}
RequestedDurations == {-1, 0, 1, 60, 61}

NextCreate ==
    \/ /\ Cardinality(DOMAIN challenges) < MaxCreated
       /\ \E type \in RequestedTypes, d \in RequestedDurations :
             CreateChallenge(type, d, Trophy)
    \/ \E type \in RequestedTypes, d \in RequestedDurations :
          CreateChallengeRejected(type, d, Trophy)

SpecCreate == InitPlaying /\ [][NextCreate]_vars

\* C23: a create-challenge call is refused with 400 exactly when its type is
\* not most_messages, most_reactions or speed or its duration is below 1 or
\* above 60 (so durations 1 and 60 are accepted); a refused call stores no
\* challenge and leaves the active-id list unchanged, and an accepted one
\* stores a challenge with a valid type and a duration from 1 to 60.
CreateValidatedStep ==
    (last'.op = "create-challenge") =>
        IF last'.status = 400
        THEN /\ \/ last'.type \notin ChallengeTypes
                \/ last'.durationMinutes < 1
                \/ last'.durationMinutes > 60
             /\ UNCHANGED <<challenges, activeList>>
        ELSE /\ last'.status = 200
             /\ last'.c \notin DOMAIN challenges
             /\ challenges'[last'.c].type \in ChallengeTypes
             /\ challenges'[last'.c].endsAt - challenges'[last'.c].startedAt
                   \in 1..60
             /\ activeList' = Append(activeList, last'.c)

CreateValidated == [][CreateValidatedStep]_vars

\* A request for 61 minutes has just been refused; a challenge of 1 minute
\* and a challenge of 60 minutes are stored and in the active list.
CreateValidatedWitness ==
    /\ last.op = "create-challenge"
    /\ last.status = 400
    /\ last.type \in ChallengeTypes
    /\ last.durationMinutes = 61
    /\ Len(activeList) = 2
    /\ \E c, e \in DOMAIN challenges :
          /\ challenges[c].endsAt - challenges[c].startedAt = 1
          /\ challenges[e].endsAt - challenges[e].startedAt = 60

----------------------------------------------------------------------------
(* The game session gates send-message, on both servers.  The initial      *)
(* state has the tables created on one of the two servers and the game not *)
(* started.                                                                *)

\* A plausible slip: pause-game without the check of the current status.
PauseGameAlways ==
    /\ gameStatus' = "paused"
    /\ last' = [op |-> "pause-game", status |-> 200]
    /\ UNCHANGED users
    /\ gameAt' = [gameAt EXCEPT !.paused_at = now]
    /\ UNCHANGED auth
    /\ twice' = Forget(twice)
    /\ UNCHANGED <<msgs, nextMsg, tableCodes, chVars, now, backendVars, reqs>>

\* POST admin/pause-game
PauseGame ==
    /\ gameStatus = "active"
    /\ gameStatus' = "paused"
    /\ last' = [op |-> "pause-game", status |-> 200]
    /\ UNCHANGED users
    /\ gameAt' = [gameAt EXCEPT !.paused_at = now]
    /\ UNCHANGED auth
    /\ twice' = Forget(twice)
    /\ UNCHANGED <<msgs, nextMsg, tableCodes, chVars, now, backendVars, reqs>>

\* POST admin/resume-game
ResumeGame ==
    /\ gameStatus = "paused"
    /\ gameStatus' = "active"
    /\ last' = [op |-> "resume-game", status |-> 200]
    /\ UNCHANGED users
    /\ gameAt' = [gameAt EXCEPT !.paused_at = Absent]
    /\ UNCHANGED auth
    /\ twice' = Forget(twice)
    /\ UNCHANGED <<msgs, nextMsg, tableCodes, chVars, now, backendVars, reqs>>

\* POST admin/end-game: no condition on the current status.
EndGame ==
    /\ gameStatus' = "ended"
    /\ last' = [op |-> "end-game", status |-> 200]
    /\ UNCHANGED users
    /\ gameAt' = [gameAt EXCEPT !.ended_at = now]
    /\ UNCHANGED auth
    /\ twice' = Forget(twice)
    /\ UNCHANGED <<msgs, nextMsg, tableCodes, chVars, now, backendVars, reqs>>

\* The answer of a refused send-message, in the order of the checks: the
\* sender is the destination (400), the destination table does not exist
\* (404), the game is not active (403).
Refusal(fromTable, toTable, known, status) ==
    IF fromTable = toTable THEN 400
    ELSE IF toTable \notin known THEN 404
    ELSE IF status # "active" THEN 403
    ELSE 200

\* POST send-message, refused: every refusal returns before kv.set.
SendMessageRejected(fromTable, toTable) ==
    /\ Refusal(fromTable, toTable, tableCodes, gameStatus) # 200
    /\ last' = [op |-> "send-message",
                status |-> Refusal(fromTable, toTable, tableCodes, gameStatus),
                table |-> fromTable, to |-> toTable]
    /\ UNCHANGED users
    /\ UNCHANGED gameAt
    /\ UNCHANGED auth
    /\ twice' = Forget(twice)
    /\ UNCHANGED <<kvVars, now, backendVars, reqs>>

\* POST /api/admin/pause-game
BackendPauseGame ==
    /\ bstatus = "active"
    /\ bstatus' = "paused"
    /\ last' = [op |-> "api/pause-game", status |-> 200]
    /\ UNCHANGED users
    /\ UNCHANGED bcodes
    /\ UNCHANGED gameAt
    /\ UNCHANGED auth
    /\ twice' = Forget(twice)
    /\ UNCHANGED <<kvVars, now, bmsgs, btables, reqs>>

\* POST /api/admin/resume-game
BackendResumeGame ==
    /\ bstatus = "paused"
    /\ bstatus' = "active"
    /\ last' = [op |-> "api/resume-game", status |-> 200]
    /\ UNCHANGED users
    /\ UNCHANGED bcodes
    /\ UNCHANGED gameAt
    /\ UNCHANGED auth
    /\ twice' = Forget(twice)
    /\ UNCHANGED <<kvVars, now, bmsgs, btables, reqs>>

\* POST /api/admin/end-game
BackendEndGame ==
    /\ bstatus' = "ended"
    /\ last' = [op |-> "api/end-game", status |-> 200]
    /\ UNCHANGED users
    /\ UNCHANGED bcodes
    /\ UNCHANGED gameAt
    /\ UNCHANGED auth
    /\ twice' = Forget(twice)
    /\ UNCHANGED <<kvVars, now, bmsgs, btables, reqs>>

\* POST /api/send-message, refused: the same checks in the same order,
\* before prisma.message.create.
BackendSendMessageRejected(fromTable, toTable) ==
    /\ Refusal(fromTable, toTable, btables, bstatus) # 200
    /\ last' = [op |-> "api/send-message",
                status |-> Refusal(fromTable, toTable, btables, bstatus),
                table |-> fromTable, to |-> toTable]
    /\ UNCHANGED users
    /\ UNCHANGED gameAt
    /\ UNCHANGED auth
    /\ twice' = Forget(twice)
    /\ UNCHANGED <<kvVars, now, backendVars, reqs>>

InitGate ==
    /\ msgs = <<>>
    /\ nextMsg = 0
    /\ \/ tableCodes = Tables /\ btables = {}
       \/ tableCodes = {} /\ btables = Tables
    /\ gameStatus = "not_started"
    /\ challenges = <<>>
    /\ activeList = <<>>
    /\ badges = [t \in Tables |-> <<>>]
    /\ now = 1
    /\ bmsgs = <<>>
    /\ bstatus = "not_started"
    /\ bcodes = CodesOf(btables)
    /\ reqs = <<>>
    /\ last = NoCall
    /\ users = NoUsers
    /\ gameAt = GameAtFor(gameStatus)
    /\ auth = NoAuth
    /\ twice = TwiceOff

\* The destinations requested: the tables and a table that does not exist.
Destinations == Tables \cup {"Z9"}

NextGate ==
    \/ StartGame
    \/ PauseGame
    \/ ResumeGame
    \/ EndGame
    \/ /\ nextMsg < MaxGateMsgs
       /\ \E f \in Tables, t \in Destinations : SendMessage(f, t)
    \/ \E f \in Tables, t \in Destinations : SendMessageRejected(f, t)
    \/ BackendStartGame
    \/ BackendPauseGame
    \/ BackendResumeGame
    \/ BackendEndGame
    \/ /\ Cardinality(DOMAIN bmsgs) < MaxGateMsgs
       /\ \E f \in Tables, t \in Destinations : BackendSendMessage(f, t)
    \/ \E f \in Tables, t \in Destinations : BackendSendMessageRejected(f, t)

SpecGate == InitGate /\ [][NextGate]_vars

\* C24: on both servers a send-message call creates a message only while
\* the game status is active: with status not_started, paused or ended the
\* call is refused and the stored messages are unchanged, also after earlier
\* sends were accepted; a call to an existing other table while the status
\* is active is accepted and stores the message.
GatedStep ==
    /\ (last'.op = "send-message") =>
          /\ gameStatus # "active" =>
                last'.status # 200 /\ UNCHANGED <<msgs, nextMsg>>
          /\ last'.status # 200 => UNCHANGED <<msgs, nextMsg>>
          /\ last'.status = 200 =>
                /\ gameStatus = "active"
                /\ DOMAIN msgs' = DOMAIN msgs \cup {last'.m}
                /\ last'.m \notin DOMAIN msgs
                /\ \A id \in DOMAIN msgs : msgs'[id] = msgs[id]
          /\ last'.status = 403 => gameStatus # "active"
    /\ (last'.op = "api/send-message") =>
          /\ bstatus # "active" =>
                last'.status # 200 /\ UNCHANGED bmsgs
          /\ last'.status # 200 => UNCHANGED bmsgs
          /\ last'.status = 200 =>
                /\ bstatus = "active"
                /\ DOMAIN bmsgs' = DOMAIN bmsgs \cup {last'.m}
                /\ last'.m \notin DOMAIN bmsgs
                /\ \A id \in DOMAIN bmsgs : bmsgs'[id] = bmsgs[id]
          /\ last'.status = 403 => bstatus # "active"

Gated == [][GatedStep]_vars

\* A send has just been refused with 403 in a paused game in which an
\* earlier send was accepted.
GatedWitness ==
    /\ last.op = "send-message"
    /\ last.status = 403
    /\ gameStatus = "paused"
    /\ nextMsg >= 1
    /\ DOMAIN msgs = 1..nextMsg

----------------------------------------------------------------------------
(* Key-value server: presence.  A user is [firstName, joinedAt,            *)
(* lastActive]; the model's users all share one lastName.                  *)

Names == {"Ann", "Bob"}

\* The minutes after which add-user-to-table drops a user.
ReapMinutes == 10

\* The minutes the clock advances in one step of the presence
\* specification: two steps reach the limit exactly.
Pace == 5

\* (now - lastActive) / 60000 < 10, with lastActive || joinedAt
StillActive(user) == now - user.lastActive < ReapMinutes

\* currentUsers.filter(...)
ActiveUsers(currentUsers) == SelectSeq(currentUsers, StillActive)

\* activeUsers.findIndex(...): the first index of the name, 0 when absent.
FindIndex(list, firstName) ==
    LET at == {i \in DOMAIN list : list[i].firstName = firstName}
    IN IF at = {} THEN 0 ELSE CHOOSE i \in at : \A j \in at : i <= j

\* Time passes.
Pass ==
    /\ now + Pace <= MaxClock
    /\ now' = now + Pace
    /\ last' = [op |-> "pass", status |-> 0]
    /\ UNCHANGED users
    /\ UNCHANGED gameAt
    /\ UNCHANGED auth
    /\ twice' = Forget(twice)
    /\ UNCHANGED <<kvVars, backendVars, reqs>>

\* POST add-user-to-table: only the list of the joined table is read,
\* filtered and written.
AddUserToTable(tableNumber, firstName) ==
    /\ LET activeUsers == ActiveUsers(users[tableNumber])
           existingUserIndex == FindIndex(activeUsers, firstName)
           updated == IF existingUserIndex >= 1
                      THEN [activeUsers EXCEPT
                               ![existingUserIndex].lastActive = now]
                      ELSE Append(activeUsers,
                                  [firstName |-> firstName, joinedAt |-> now,
                                   lastActive |-> now])
       IN users' = [users EXCEPT ![tableNumber] = updated]
    /\ last' = [op |-> "add-user-to-table", status |-> 200,
                table |-> tableNumber, firstName |-> firstName]
    /\ UNCHANGED gameAt
    /\ UNCHANGED auth
    /\ twice' = Forget(twice)
    /\ UNCHANGED <<kvVars, now, backendVars, reqs>>

\* POST user-heartbeat: the user's lastActive is refreshed when the user is
\* in the list; nothing is written otherwise.
UserHeartbeat(tableNumber, firstName) ==
    /\ LET userIndex == FindIndex(users[tableNumber], firstName)
       IN users' = IF userIndex >= 1
                   THEN [users EXCEPT
                            ![tableNumber][userIndex].lastActive = now]
                   ELSE users
    /\ last' = [op |-> "user-heartbeat", status |-> 200,
                table |-> tableNumber, firstName |-> firstName]
    /\ UNCHANGED gameAt
    /\ UNCHANGED auth
    /\ twice' = Forget(twice)
    /\ UNCHANGED <<kvVars, now, backendVars, reqs>>

\* POST remove-user-from-table
RemoveUserFromTable(tableNumber, firstName) ==
    /\ users' = [users EXCEPT ![tableNumber] =
                    SelectSeq(@, LAMBDA user : user.firstName # firstName)]
    /\ last' = [op |-> "remove-user-from-table", status |-> 200,
                table |-> tableNumber, firstName |-> firstName]
    /\ UNCHANGED gameAt
    /\ UNCHANGED auth
    /\ twice' = Forget(twice)
    /\ UNCHANGED <<kvVars, now, backendVars, reqs>>

NextPresence ==
    \/ Pass
    \/ \E t \in Tables, n \in Names : AddUserToTable(t, n)
    \/ \E t \in Tables, n \in Names : UserHeartbeat(t, n)
    \/ \E t \in Tables, n \in Names : RemoveUserFromTable(t, n)

SpecPresence == InitPlaying /\ [][NextPresence]_vars

\* C28: immediately after any add-user-to-table call no table holds a user
\* whose lastActive is 10 minutes or more in the past: the join has removed
\* such users from every table.
ReapedEverywhere ==
    (last.op = "add-user-to-table") =>
        \A t \in Tables :
            \A i \in DOMAIN users[t] : now - users[t][i].lastActive < ReapMinutes

----------------------------------------------------------------------------
(* Express/Prisma backend: the join codes of tables, the table codes of    *)
(* staff members and the secret code of the admin.                         *)

\* The codes typed in: all pass validateTableCode and are upper case.
Codes == {DefaultAdminCode, "ALPHA01", "BRAVO02"}

\* The answer of a handler that changes no row.
CodeRefused(op, status) ==
    /\ last' = [op |-> op, status |-> status]
    /\ UNCHANGED users
    /\ UNCHANGED gameAt
    /\ UNCHANGED auth
    /\ twice' = Forget(twice)
    /\ UNCHANGED <<kvVars, now, backendVars, reqs>>

\* The answer of a handler that has written the codes.
CodesWritten(op, codes) ==
    /\ bcodes' = codes
    /\ last' = [op |-> op, status |-> 200]
    /\ UNCHANGED users
    /\ UNCHANGED gameAt
    /\ UNCHANGED auth
    /\ twice' = Forget(twice)
    /\ UNCHANGED <<kvVars, now, bmsgs, btables, bstatus, reqs>>

\* utils/permissions.ts: the nine permission keys and the permissions of a
\* new staff member.
Permissions ==
    {"manage_tables", "view_users", "view_messages", "send_broadcast",
     "manage_countdown", "view_leaderboard", "manage_challenges", "manage_tv",
     "manage_game_state"}
DEFAULT_PERMISSIONS ==
    [k \in Permissions |->
        k \in {"view_users", "view_messages", "view_leaderboard"}]

\* serializePermissions: { ...DEFAULT_PERMISSIONS, ...permissions }.  The
\* column holds the JSON text of this object of booleans; it is kept here
\* as the object JSON.parse gives back.
serializePermissions(permissions) ==
    [k \in Permissions \cup DOMAIN permissions |->
        IF k \in DOMAIN permissions THEN permissions[k]
        ELSE DEFAULT_PERMISSIONS[k]]

\* parsePermissions: { ...DEFAULT_PERMISSIONS, ...parsed }.
parsePermissions(permissionsJson) == serializePermissions(permissionsJson)

\* POST /api/staff: the code is compared with the admin's code, the tables'
\* codes and the other staff codes.  The request carries no permissions
\* (permissions || {}); isActive is left to the column default of the
\* Prisma schema, which is not in the sources: both values are taken.
CreateStaff(tableCode) ==
    IF \/ tableCode = bcodes.admin
       \/ tableCode \in TableCodesInUse
       \/ tableCode \in StaffCodesInUse
    THEN CodeRefused("api/staff", 400)
    ELSE /\ bcodes' = [bcodes EXCEPT !.staff = Append(@, tableCode)]
         /\ \E isActive \in BOOLEAN :
               auth' = [auth EXCEPT
                   !.permissions = Append(@, serializePermissions(<<>>)),
                   !.isActive = Append(@, isActive)]
         /\ last' = [op |-> "api/staff", status |-> 200]
         /\ UNCHANGED users
         /\ UNCHANGED gameAt
         /\ twice' = Forget(twice)
         /\ UNCHANGED <<kvVars, now, bmsgs, btables, bstatus, reqs>>

\* PUT /api/staff/:id with a tableCode: a code that differs from the
\* member's own is compared with the admin's code and the other staff
\* codes, not with the tables' codes.
UpdateStaff(staffId, tableCode) ==
    IF staffId \notin DOMAIN bcodes.staff
    THEN CodeRefused("api/staff/:id", 404)
    ELSE IF tableCode = bcodes.staff[staffId]
    THEN CodesWritten("api/staff/:id", bcodes)
    ELSE IF \/ tableCode = bcodes.admin
            \/ \E i \in DOMAIN bcodes.staff :
                  i # staffId /\ bcodes.staff[i] = tableCode
    THEN CodeRefused("api/staff/:id", 400)
    ELSE CodesWritten("api/staff/:id",
                      [bcodes EXCEPT !.staff[staffId] = tableCode])

\* PUT /api/admin/secret-code: the new code is compared with the tables'
\* codes and the staff codes.
UpdateSecretCode(newCode) ==
    IF newCode \in TableCodesInUse \/ newCode \in StaffCodesInUse
    THEN CodeRefused("api/admin/secret-code", 400)
    ELSE CodesWritten("api/admin/secret-code",
                      [bcodes EXCEPT !.admin = newCode])

NextCodes ==
    \/ \E t \in Tables, code \in Codes : BackendCreateTable(t, code)
    \/ /\ Len(bcodes.staff) < MaxStaff
       /\ \E code \in Codes : CreateStaff(code)
    \/ \E i \in 1..MaxStaff, code \in Codes : UpdateStaff(i, code)
    \/ \E code \in Codes : UpdateSecretCode(code)

SpecCodes == Init /\ [][NextCodes]_vars

\* C29: in the backend no code is shared by two different entities among
\* the tables' join codes, the staff table codes and the admin's secret
\* code.
CodesUnique ==
    /\ \A t1, t2 \in DOMAIN bcodes.table :
          bcodes.table[t1] = bcodes.table[t2] => t1 = t2
    /\ \A i, j \in DOMAIN bcodes.staff :
          bcodes.staff[i] = bcodes.staff[j] => i = j
    /\ TableCodesInUse \cap StaffCodesInUse = {}
    /\ bcodes.admin \notin TableCodesInUse \cup StaffCodesInUse

----------------------------------------------------------------------------
(* Key-value server: any store operation of determineWinner may throw.     *)
(* One challenge request at a time, followed from await to await.          *)

\* determineWinner: kv.getByPrefix("message:") throws; challenge.results and
\* challenge.winner are never assigned.  The catch of determineWinner logs
\* the error and returns, and the handler goes on with challenge.active =
\* false and its own kv.set.
ChallengeMessagesGetFails(r) ==
    /\ IsAt(r, "messages")
    /\ reqs' = [reqs EXCEPT ![r].pc = "save-inactive", ![r].failed = TRUE]
    /\ UNCHANGED users
    /\ UNCHANGED gameAt
    /\ UNCHANGED auth
    /\ twice' = Forget(twice)
    /\ UNCHANGED <<kvVars, now, backendVars, last>>

\* determineWinner: kv.get(`table:${winnerId}:badges`) throws, with the same
\* catch.
ChallengeBadgesGetFails(r) ==
    /\ IsAt(r, "badges-get")
    /\ reqs' = [reqs EXCEPT ![r].pc = "save-inactive", ![r].failed = TRUE]
    /\ UNCHANGED users
    /\ UNCHANGED gameAt
    /\ UNCHANGED auth
    /\ twice' = Forget(twice)
    /\ UNCHANGED <<kvVars, now, backendVars, last>>

\* determineWinner: kv.set(`challenge:${challengeId}`, challenge) throws,
\* with the same catch.
ChallengeSaveWinnerFails(r) ==
    /\ IsAt(r, "save-winner")
    /\ reqs' = [reqs EXCEPT ![r].pc = "save-inactive", ![r].failed = TRUE]
    /\ UNCHANGED users
    /\ UNCHANGED gameAt
    /\ UNCHANGED auth
    /\ twice' = Forget(twice)
    /\ UNCHANGED <<kvVars, now, backendVars, last>>

NextSurface ==
    \/ NextFail
    \/ ChallengeMessagesGetFails(1)
    \/ ChallengeBadgesGetFails(1)
    \/ ChallengeSaveWinnerFails(1)

SpecSurface == InitPlaying /\ [][NextSurface]_vars

\* C30: a request during which a store operation of the winner
\* determination failed answers 500 (internal error), and the challenge it
\* was resolving is not stored inactive with no winner and no results.
FailureSurfaced ==
    \A r \in DOMAIN reqs :
        (reqs[r].pc = "done" /\ reqs[r].failed) =>
            /\ reqs[r].status = 500
            /\ reqs[r].c \in DOMAIN challenges =>
                  ~ /\ ~challenges[reqs[r].c].active
                    /\ challenges[reqs[r].c].winner = NULL
                    /\ challenges[reqs[r].c].results = <<>>

----------------------------------------------------------------------------
(* Key-value server: reset-game among the other admin handlers, run one at *)
(* a time.  The tables exist and the game is active at the start; one      *)
(* user joins tables, one challenge is created and ended by hand.          *)

NextReset ==
    \/ \E t \in Tables : CreateTableCode(t)
    \/ \E t \in Tables : DeleteTable(t)
    \/ StartGame
    \/ PauseGame
    \/ ResumeGame
    \/ EndGame
    \/ ResetGame
    \/ /\ nextMsg < MaxResetMsgs
       /\ \E f \in Tables, t \in Tables : SendMessage(f, t)
    \/ \E t \in Tables : AddUserToTable(t, "Ann")
    \/ /\ Cardinality(DOMAIN challenges) < MaxChallenges
       /\ CreateChallenge("most_messages", 1, Trophy)
    \/ \E c \in DOMAIN challenges : EndChallenge(c)

SpecReset == InitPlaying /\ [][NextReset]_vars

\* C32: reset-game sets the status to not_started, clears the three
\* timestamps, deletes every message and every presence record and leaves
\* the tables, the challenges, the active-id list and the badge lists as
\* they were; no other operation deletes a message.
ResetFrameStep ==
    /\ last'.op = "reset-game" =>
          /\ gameStatus' = "not_started"
          /\ gameAt' = NoGameAt
          /\ msgs' = <<>>
          /\ \A t \in Tables : users'[t] = <<>>
          /\ UNCHANGED <<tableCodes, challenges, activeList, badges>>
    /\ (\E m \in DOMAIN msgs : m \notin DOMAIN msgs') =>
          last'.op = "reset-game"

ResetFrame == [][ResetFrameStep]_vars

----------------------------------------------------------------------------
(* The game status on both servers: the five game-control handlers, the    *)
(* accepted and the refused calls, run one at a time.                      *)

GameStatuses == {"not_started", "active", "paused", "ended"}

\* The status a game-control call needs to be refused: start-game when the
\* game is active, pause-game unless it is active, resume-game unless it is
\* paused; end-game and reset-game are never refused.
Refused(op, status) ==
    CASE op = "start-game" -> status = "active"
      [] op = "pause-game" -> status # "active"
      [] op = "resume-game" -> status # "paused"
      [] OTHER -> FALSE

\* POST admin/start-game, pause-game, resume-game, refused: 400 before any
\* kv.set.
GameControlRejected(op) ==
    /\ Refused(op, gameStatus)
    /\ last' = [op |-> op, status |-> 400]
    /\ UNCHANGED users
    /\ UNCHANGED gameAt
    /\ UNCHANGED auth
    /\ twice' = Forget(twice)
    /\ UNCHANGED <<kvVars, now, backendVars, reqs>>

\* POST /api/admin/start-game, pause-game, resume-game, refused: 400 before
\* the update of the session row.
BackendGameControlRejected(op) ==
    /\ Refused(op, bstatus)
    /\ last' = [op |-> "api/" \o op, status |-> 400]
    /\ UNCHANGED users
    /\ UNCHANGED gameAt
    /\ UNCHANGED auth
    /\ twice' = Forget(twice)
    /\ UNCHANGED <<kvVars, now, backendVars, reqs>>

\* POST /api/admin/reset-game: the session row goes back to not_started and
\* every message row is deleted.
BackendResetGame ==
    /\ bstatus' = "not_started"
    /\ bmsgs' = <<>>
    /\ last' = [op |-> "api/reset-game", status |-> 200]
    /\ UNCHANGED users
    /\ UNCHANGED gameAt
    /\ UNCHANGED auth
    /\ twice' = Forget(twice)
    /\ UNCHANGED <<kvVars, now, btables, bcodes, reqs>>

RefusableOps == {"start-game", "pause-game", "resume-game"}

NextControl ==
    \/ StartGame
    \/ PauseGame
    \/ ResumeGame
    \/ EndGame
    \/ ResetGame
    \/ \E op \in RefusableOps : GameControlRejected(op)
    \/ BackendStartGame
    \/ BackendPauseGame
    \/ BackendResumeGame
    \/ BackendEndGame
    \/ BackendResetGame
    \/ \E op \in RefusableOps : BackendGameControlRejected(op)
    \/ Tick

SpecControl == Init /\ [][NextControl]_vars

\* The status a game-control call leaves and the answer it gets, by the
\* status it finds.
Allowed(op, status, status2, answer) ==
    IF Refused(op, status)
    THEN status2 = status /\ answer = 400
    ELSE /\ answer = 200
         /\ status2 = CASE op = "start-game" -> "active"
                        [] op = "pause-game" -> "paused"
                        [] op = "resume-game" -> "active"
                        [] op = "end-game" -> "ended"
                        [] op = "reset-game" -> "not_started"

ControlOps == RefusableOps \cup {"end-game", "reset-game"}

\* C33: on both servers the status is always one of not_started, active,
\* paused and ended and changes only by a game-control call: start-game
\* moves any status but active to active and is refused when active,
\* pause-game moves active to paused and is refused otherwise, resume-game
\* moves paused to active and is refused otherwise, end-game moves any
\* status to ended, reset-game moves any status to not_started; a refused
\* call leaves the status as it was.
TransitionsStep ==
    /\ gameStatus' \in GameStatuses /\ bstatus' \in GameStatuses
    /\ \A op \in ControlOps :
          /\ last'.op = op =>
                /\ Allowed(op, gameStatus, gameStatus', last'.status)
                /\ bstatus' = bstatus
          /\ last'.op = "api/" \o op =>
                /\ Allowed(op, bstatus, bstatus', last'.status)
                /\ gameStatus' = gameStatus
    /\ gameStatus' # gameStatus => last'.op \in ControlOps
    /\ bstatus' # bstatus => last'.op \in {"api/" \o op : op \in ControlOps}

Transitions == [][TransitionsStep]_vars

\* The key-value game was ended and started again, and the backend has just
\* refused to resume a game that is not paused.
TransitionsWitness ==
    /\ gameStatus = "active" /\ gameAt.ended_at # Absent
    /\ last = [op |-> "api/resume-game", status |-> 400]
    /\ bstatus = "ended"

----------------------------------------------------------------------------
(* Client: fetchWithRetry(url, options, retries).  The frame of a call     *)
(* holds the loop counter attempt, the outcome of every fetch so far       *)
(* (history) and the delays slept; the network and the server choose the   *)
(* outcome of each fetch.                                                  *)

\* What one fetch can produce: a response with a status, or a network
\* error (fetch throws).
FetchOutcomes ==
    {[error |-> FALSE, status |-> st] : st \in {200, 304, 404, 500, 503}}
        \cup {[error |-> TRUE, status |-> 0]}

\* response.ok
Ok(response) == response.status >= 200 /\ response.status <= 299

\* The frame once the loop is entered or re-entered: the next fetch when
\* attempt < retries, else throw new Error('Max retries reached').
LoopTest(f) ==
    IF f.attempt < f.retries
    THEN [f EXCEPT !.pc = "fetch"]
    ELSE [f EXCEPT !.pc = "done", !.thrown = "max retries"]

\* The answer of a finished call: the response returned or the error
\* thrown.
FetchResult(f) ==
    [op |-> "fetchWithRetry", status |-> f.response.status,
     thrown |-> f.thrown]

\* fetchWithRetry is called.
FetchBegin(r, retries) ==
    /\ DOMAIN reqs = {}
    /\ LET f == LoopTest([op |-> "fetchWithRetry", pc |-> "loop",
                          retries |-> retries, attempt |-> 0,
                          history |-> <<>>, slept |-> <<>>,
                          response |-> [error |-> FALSE, status |-> 0],
                          thrown |-> "none"])
       IN /\ reqs' = [q \in {r} |-> f]
          /\ last' = IF f.pc = "done" THEN FetchResult(f) ELSE last
    /\ UNCHANGED users
    /\ UNCHANGED gameAt
    /\ UNCHANGED auth
    /\ twice' = Forget(twice)
    /\ UNCHANGED <<kvVars, now, backendVars>>

\* The frame after one pass of the loop body in which fetch produced
\* outcome: the return, the throw or the sleep before the next pass.
AfterFetch(frame, outcome) ==
    LET f0 == [frame EXCEPT !.history = Append(@, outcome)]
    IN IF outcome.error
       THEN IF f0.attempt < f0.retries - 1
            THEN [f0 EXCEPT !.pc = "sleep"]
            ELSE [f0 EXCEPT !.pc = "done", !.thrown = "network error"]
       ELSE IF Ok(outcome)
       THEN [f0 EXCEPT !.pc = "done", !.response = outcome]
       ELSE IF outcome.status >= 500 /\ f0.attempt < f0.retries - 1
       THEN [f0 EXCEPT !.pc = "sleep"]
       ELSE [f0 EXCEPT !.pc = "done", !.response = outcome]

\* A plausible slip: every response that is not ok is retried while
\* attempts remain.
FetchAttemptRetryAll(r, outcome) ==
    /\ r \in DOMAIN reqs /\ reqs[r].op = "fetchWithRetry"
    /\ reqs[r].pc = "fetch"
    /\ outcome \in FetchOutcomes
    /\ LET f0 == [reqs[r] EXCEPT !.history = Append(@, outcome)]
           f == IF ~outcome.error /\ Ok(outcome)
                THEN [f0 EXCEPT !.pc = "done", !.response = outcome]
                ELSE IF f0.attempt < f0.retries - 1
                THEN [f0 EXCEPT !.pc = "sleep"]
                ELSE IF outcome.error
                THEN [f0 EXCEPT !.pc = "done", !.thrown = "network error"]
                ELSE [f0 EXCEPT !.pc = "done", !.response = outcome]
       IN /\ reqs' = [reqs EXCEPT ![r] = f]
          /\ last' = IF f.pc = "done" THEN FetchResult(f) ELSE last
    /\ UNCHANGED users
    /\ UNCHANGED gameAt
    /\ UNCHANGED auth
    /\ twice' = Forget(twice)
    /\ UNCHANGED <<kvVars, now, backendVars>>

\* const response = await fetch(url, options) and what follows it in the
\* loop body, up to the return, the throw or the sleep.
FetchAttempt(r, outcome) ==
    /\ r \in DOMAIN reqs /\ reqs[r].op = "fetchWithRetry"
    /\ reqs[r].pc = "fetch"
    /\ outcome \in FetchOutcomes
    /\ LET f == AfterFetch(reqs[r], outcome)
       IN /\ reqs' = [reqs EXCEPT ![r] = f]
          /\ last' = IF f.pc = "done" THEN FetchResult(f) ELSE last
    /\ UNCHANGED users
    /\ UNCHANGED gameAt
    /\ UNCHANGED auth
    /\ twice' = Forget(twice)
    /\ UNCHANGED <<kvVars, now, backendVars>>

\* await sleep(1000 * (attempt + 1)); continue
FetchSleep(r) ==
    /\ r \in DOMAIN reqs /\ reqs[r].op = "fetchWithRetry"
    /\ reqs[r].pc = "sleep"
    /\ reqs' = [reqs EXCEPT ![r] =
                  LoopTest([@ EXCEPT !.slept =
                                        Append(@, 1000 * (reqs[r].attempt + 1)),
                                     !.attempt = @ + 1])]
    /\ UNCHANGED users
    /\ UNCHANGED gameAt
    /\ UNCHANGED auth
    /\ twice' = Forget(twice)
    /\ UNCHANGED <<kvVars, now, backendVars, last>>

NextRetry ==
    \/ \E retries \in 0..MaxRetries : FetchBegin(1, retries)
    \/ \E outcome \in FetchOutcomes : FetchAttempt(1, outcome)
    \/ FetchSleep(1)
    \/ RequestsClear

SpecRetry == Init /\ [][NextRetry]_vars

\* An outcome after which the call may fetch again.
Retryable(outcome) == outcome.error \/ outcome.status >= 500

\* C34: a call of fetchWithRetry makes at most `retries` fetches.  Each
\* fetch but the last ended in a network error or a 5xx response and was
\* followed by a delay of 1000 ms times its number; a 2xx or 4xx response
\* is returned by the fetch that produced it; a 5xx response is returned
\* and a network error rethrown only by fetch number `retries`.
RetryContract ==
    \A r \in DOMAIN reqs :
        LET f == reqs[r]
            n == Len(f.history)
        IN f.op = "fetchWithRetry" =>
            /\ n <= f.retries
            /\ \A i \in 1..(n - 1) : Retryable(f.history[i])
            /\ \A i \in DOMAIN f.slept : f.slept[i] = 1000 * i
            /\ f.pc = "fetch" => Len(f.slept) = n
            /\ f.pc = "sleep" =>
                  /\ Retryable(f.history[n]) /\ n < f.retries
                  /\ Len(f.slept) = n - 1
            /\ (f.pc = "done" /\ n >= 1) =>
                  /\ Len(f.slept) = n - 1
                  /\ Retryable(f.history[n]) => n = f.retries
                  /\ IF f.history[n].error
                     THEN f.thrown = "network error"
                     ELSE f.thrown = "none" /\ f.response = f.history[n]

\* Three fetches: a network error, a 503 and a 500, which is returned
\* after delays of one and two seconds.
RetryContractWitness ==
    /\ 1 \in DOMAIN reqs
    /\ reqs[1].op = "fetchWithRetry" /\ reqs[1].pc = "done"
    /\ reqs[1].retries = 3
    /\ reqs[1].history = <<[error |-> TRUE, status |-> 0],
                           [error |-> FALSE, status |-> 503],
                           [error |-> FALSE, status |-> 500]>>
    /\ reqs[1].slept = <<1000, 2000>>
    /\ last = [op |-> "fetchWithRetry", status |-> 500, thrown |-> "none"]

----------------------------------------------------------------------------
(* Key-value server: a challenge that expired unread.  The challenge ran   *)
(* from minute 1 to minute 2; table A1 sent one message in minute 1, which *)
(* B2 answered with a heart.  It is minute 3 and nothing has read the      *)
(* challenge yet: the handlers run one at a time until one does.           *)

\* The messages stored at endsAt.
AtEndsAt == <<ApplyReaction(MessageAt(1, "A1", "B2", 1), "B2", "heart")>>

InitLate ==
    \E type \in {"most_messages", "most_reactions"} :
        /\ msgs = AtEndsAt
        /\ nextMsg = 1
        /\ tableCodes = Tables
        /\ gameStatus = "active"
        /\ challenges = <<[id |-> 1, title |-> Medal.title,
                           type |-> type, startedAt |-> 1, endsAt |-> 2,
                           active |-> TRUE, badgeName |-> Medal.badgeName,
                           badgeEmoji |-> Medal.badgeEmoji,
                           winner |-> NULL, results |-> <<>>]>>
        /\ activeList = <<1>>
        /\ badges = [t \in Tables |-> <<>>]
        /\ now = 3
        /\ bmsgs = <<>>
        /\ btables = {}
        /\ bstatus = "not_started"
        /\ bcodes = CodesOf(btables)
        /\ reqs = <<>>
        /\ last = NoCall
        /\ users = NoUsers
        /\ gameAt = GameAtFor(gameStatus)
        /\ auth = NoAuth
        /\ twice = TwiceOff

NextLate ==
    \/ \E m \in DOMAIN msgs, t \in Tables, k \in ScoreKinds :
          AddReaction(m, t, k)
    \/ /\ nextMsg < MaxLateMsgs
       /\ \E f \in Tables, t \in Tables : SendMessage(f, t)
    \/ ResetGame
    \/ StartGame
    \/ ListActiveChallenges
    \/ GetChallenge(1)

SpecLate == InitLate /\ [][NextLate]_vars

\* C35: the winner, the results and the badge of a challenge that expired
\* unread are those of the messages stored at endsAt, however late the
\* first read comes: reactions, sends and a reset between endsAt and the
\* read change none of them.
DecidedAtEndsAt ==
    \A c \in DOMAIN challenges :
        ~challenges[c].active =>
            LET decided == DetermineWinner(challenges[c], AtEndsAt)
            IN /\ challenges[c].winner = decided.winner
               /\ challenges[c].results = decided.results
               /\ BadgeCount(c) = IF decided.winner = NULL THEN 0 ELSE 1

----------------------------------------------------------------------------
(* Client and key-value server: App.handleSendMessage.  One user at table  *)
(* A1 sends to B2; the game is active.  Each fetch of fetchWithRetry is a  *)
(* POST send-message that the server may or may not get to process, and    *)
(* whose response may or may not come back.                                *)

\* retries = 3, the default: handleSendMessage passes none.
DefaultRetries == 3

\* What one POST send-message can come to: the server stores the message
\* and the client gets the 200; the server stores the message and the
\* response is lost on the way back (fetch throws); the request never
\* arrives (fetch throws); kv.set throws and the handler answers 500.
SendOutcomes ==
    {[processed |-> TRUE, error |-> FALSE, status |-> 200],
     [processed |-> TRUE, error |-> TRUE, status |-> 0],
     [processed |-> FALSE, error |-> TRUE, status |-> 0],
     [processed |-> FALSE, error |-> FALSE, status |-> 500]}

\* The user presses send: handleSendMessage calls fetchWithRetry.  `base`
\* is the number of messages created before the action (history).
HandleSendMessage(r, toTable) ==
    /\ DOMAIN reqs = {}
    /\ reqs' = [q \in {r} |->
                  LoopTest([op |-> "fetchWithRetry", pc |-> "loop",
                            retries |-> DefaultRetries, attempt |-> 0,
                            history |-> <<>>, slept |-> <<>>,
                            response |-> [error |-> FALSE, status |-> 0],
                            thrown |-> "none",
                            fromTable |-> "A1", toTable |-> toTable,
                            base |-> nextMsg])]
    /\ UNCHANGED users
    /\ UNCHANGED gameAt
    /\ UNCHANGED auth
    /\ twice' = Forget(twice)
    /\ UNCHANGED <<kvVars, now, backendVars, last>>

\* One fetch of the send: the server's send-message handler stores a new
\* message when it processes the request (a new id every time), and the
\* loop body of fetchWithRetry goes on from what came back.
SendAttempt(r, sent) ==
    /\ r \in DOMAIN reqs /\ reqs[r].op = "fetchWithRetry"
    /\ reqs[r].pc = "fetch"
    /\ sent \in SendOutcomes
    /\ LET f == AfterFetch(reqs[r], [error |-> sent.error,
                                     status |-> sent.status])
       IN /\ reqs' = [reqs EXCEPT ![r] = f]
          /\ last' = IF f.pc = "done" THEN FetchResult(f) ELSE last
    /\ IF sent.processed
       THEN /\ nextMsg' = nextMsg + 1
            /\ msgs' = [id \in DOMAIN msgs \cup {nextMsg + 1} |->
                          IF id = nextMsg + 1
                          THEN NewMessage(id, reqs[r].fromTable,
                                          reqs[r].toTable)
                          ELSE msgs[id]]
       ELSE UNCHANGED <<msgs, nextMsg>>
    /\ UNCHANGED users
    /\ UNCHANGED gameAt
    /\ UNCHANGED auth
    /\ twice' = Forget(twice)
    /\ UNCHANGED <<tableCodes, gameStatus, chVars, now, backendVars>>

NextResend ==
    \/ /\ nextMsg < MaxSendActions
       /\ HandleSendMessage(1, "B2")
    \/ \E sent \in SendOutcomes : SendAttempt(1, sent)
    \/ FetchSleep(1)
    \/ RequestsClear

SpecResend == InitPlaying /\ [][NextResend]_vars

\* C36: one send action of the user creates at most one message on the
\* server, also when fetchWithRetry issues the request again.
OneMessagePerSend ==
    \A r \in DOMAIN reqs : nextMsg - reqs[r].base <= 1

----------------------------------------------------------------------------
(* Key-value server: the winner against the results.  One challenge of any *)
(* of the three types over a few stored messages; the handlers that        *)
(* resolve it run one at a time.                                           *)

\* A speed challenge of minutes 1 to SpeedCount + 2, expired: each table
\* sent no message, one short of SpeedCount, or SpeedCount messages, one a
\* minute, B2 from minute 1 or 2.
InitFive ==
    \E nA \in {0, SpeedCount - 1, SpeedCount},
       nB \in {0, SpeedCount - 1, SpeedCount}, oB \in 0..1 :
        LET P == SpeedSends(nA, nB, oB)
        IN /\ msgs = SpeedMessages(P)
           /\ nextMsg = Cardinality(P)
           /\ tableCodes = Tables
           /\ gameStatus = "active"
           /\ challenges = <<[id |-> 1, title |-> Trophy.title,
                              type |-> "speed", startedAt |-> 1,
                              endsAt |-> SpeedCount + 2, active |-> TRUE,
                              badgeName |-> Trophy.badgeName,
                              badgeEmoji |-> Trophy.badgeEmoji,
                              winner |-> NULL, results |-> <<>>]>>
           /\ activeList = <<1>>
           /\ badges = [t \in Tables |-> <<>>]
           /\ now = SpeedCount + 3
           /\ bmsgs = <<>>
           /\ btables = {}
           /\ bstatus = "not_started"
           /\ bcodes = CodesOf(btables)
           /\ reqs = <<>>
           /\ last = NoCall
           /\ users = NoUsers
           /\ gameAt = GameAtFor(gameStatus)
           /\ auth = NoAuth
           /\ twice = TwiceOff

InitOptimal ==
    \/ InitScored("most_messages", Medal, MaxOptimal, 0, {MaxOptimal}, 0)
    \/ InitScored("most_reactions", Ribbon, MaxOptimal, 1, {MaxOptimal},
                  MaxOptimal)
    \/ InitFive

SpecOptimal == InitOptimal /\ [][NextWinner]_vars

\* C38: the winner of a resolved challenge is null or a key of results
\* with the best score (the largest for most_messages and most_reactions,
\* the smallest for speed); it is null exactly when results is empty or,
\* for most_messages and most_reactions, every score is 0; a challenge
\* without a winner awards no badge.
WinnerOptimal ==
    \A c \in DOMAIN challenges :
        ~challenges[c].active =>
            LET challenge == challenges[c]
                results == challenge.results
                speed == challenge.type = "speed"
            IN /\ challenge.winner # NULL =>
                     /\ challenge.winner \in DOMAIN results
                     /\ \A t \in DOMAIN results :
                           IF speed
                           THEN results[challenge.winner] <= results[t]
                           ELSE results[challenge.winner] >= results[t]
                     /\ BadgeCount(c) = 1
               /\ challenge.winner = NULL =>
                     /\ \/ DOMAIN results = {}
                        \/ ~speed /\ \A t \in DOMAIN results : results[t] = 0
                     /\ BadgeCount(c) = 0
               /\ (\/ DOMAIN results = {}
                   \/ ~speed /\ \A t \in DOMAIN results : results[t] = 0)
                     => challenge.winner = NULL

\* A resolved most_reactions challenge in which no message received a
\* reaction: entries of 0, no winner, no badge.
WinnerOptimalWitness ==
    /\ 1 \in DOMAIN challenges
    /\ challenges[1].type = "most_reactions" /\ ~challenges[1].active
    /\ DOMAIN challenges[1].results = Tables
    /\ \A t \in Tables : challenges[1].results[t] = 0
    /\ challenges[1].winner = NULL
    /\ BadgeCount(1) = 0


----------------------------------------------------------------------------
(* Express/Prisma backend: the JWTs of admin and staff, requireAuth and    *)
(* requirePermission in front of the read-only admin routes.               *)

\* A request without a verifiable token: no Authorization header, a wrong
\* signature, or a token older than JWT_EXPIRES_IN.
Unverifiable == [id |-> 0, role |-> "none", permissions |-> <<>>]

\* The permissions objects an admin sends: any choice of true, false or
\* nothing for two of the keys.
PermissionBodies ==
    UNION {[keys -> BOOLEAN] : keys \in SUBSET {"view_messages", "view_users"}}

\* The permission each guarded route names in requirePermission(...).
RoutePermission ==
    [r \in {"api/admin/all-messages", "api/admin/active-tables"} |->
        IF r = "api/admin/all-messages" THEN "view_messages" ELSE "view_users"]

\* The answer of a handler that changes nothing but the tokens issued.
AuthAnswered(answer, tokens) ==
    /\ auth' = [auth EXCEPT !.tokens = tokens]
    /\ last' = answer
    /\ UNCHANGED users
    /\ UNCHANGED gameAt
    /\ twice' = Forget(twice)
    /\ UNCHANGED <<kvVars, now, backendVars, reqs>>

\* POST /api/admin/login with the admin's code: generateToken of a payload
\* without permissions (correct: the name and the password match).
AdminLogin(correct) ==
    IF ~correct
    THEN AuthAnswered([op |-> "api/admin/login", status |-> 401], auth.tokens)
    ELSE AuthAnswered([op |-> "api/admin/login", status |-> 200],
                      auth.tokens \cup
                          {[id |-> 1, role |-> "admin", permissions |-> <<>>]})

\* POST /api/staff/login with the table code of staff row id: the payload
\* signed into the token holds parsePermissions(staff.permissions) as it is
\* at the login.
StaffLogin(id, correct) ==
    IF id \notin DOMAIN auth.isActive \/ ~auth.isActive[id] \/ ~correct
    THEN AuthAnswered([op |-> "api/staff/login", status |-> 401], auth.tokens)
    ELSE AuthAnswered([op |-> "api/staff/login", status |-> 200],
                      auth.tokens \cup
                          {[id |-> id, role |-> "staff",
                            permissions |->
                                parsePermissions(auth.permissions[id])]})

\* A token reaches the age of JWT_EXPIRES_IN: verifyToken throws from now
\* on, the token is unverifiable.
TokenExpires(token) ==
    /\ token \in auth.tokens
    /\ AuthAnswered(last, auth.tokens \ {token})

\* The answer of a staff-management handler that has written the staff rows.
StaffWritten(op, permissions, isActive) ==
    /\ auth' = [auth EXCEPT !.permissions = permissions, !.isActive = isActive]
    /\ last' = [op |-> op, status |-> 200]
    /\ UNCHANGED users
    /\ UNCHANGED gameAt
    /\ twice' = Forget(twice)
    /\ UNCHANGED <<kvVars, now, backendVars, reqs>>

\* PUT /api/staff/:id/permissions, by the admin: the row's permissions
\* become serializePermissions(permissions).
UpdatePermissions(staffId, permissions) ==
    IF staffId \notin DOMAIN auth.permissions
    THEN CodeRefused("api/staff/:id/permissions", 404)
    ELSE StaffWritten("api/staff/:id/permissions",
                      [auth.permissions EXCEPT
                          ![staffId] = serializePermissions(permissions)],
                      auth.isActive)

\* PUT /api/staff/:id with a boolean isActive and nothing else, by the
\* admin.
UpdateStaffActive(staffId, isActive) ==
    IF staffId \notin DOMAIN auth.isActive
    THEN CodeRefused("api/staff/:id", 404)
    ELSE StaffWritten("api/staff/:id", auth.permissions,
                      [auth.isActive EXCEPT ![staffId] = isActive])

\* requireAuth: 401 without a verifiable token, 401 for a staff token whose
\* row is missing or disabled (the admin row always exists); otherwise
\* req.user is the decoded payload, 0 stands for next().
requireAuth(token) ==
    IF token \notin auth.tokens THEN 401
    ELSE IF /\ token.role = "staff"
            /\ \/ token.id \notin DOMAIN auth.isActive
               \/ ~auth.isActive[token.id]
    THEN 401
    ELSE 0

\* requirePermission(permission) on req.user: the admin passes, a staff
\* member passes when req.user.permissions[permission] is truthy.
requirePermission(permission, user) ==
    IF user.role = "admin" THEN 0
    ELSE IF user.role = "staff"
    THEN IF /\ permission \in DOMAIN user.permissions
            /\ user.permissions[permission]
         THEN 0 ELSE 403
    ELSE 403

\* GET /api/admin/all-messages and GET /api/admin/active-tables:
\* requireAuth, requirePermission(...), then the handler, which reads rows
\* and answers 200.
GuardedRequest(route, token) ==
    LET authStatus == requireAuth(token)
        status == IF authStatus # 0 THEN authStatus
                  ELSE requirePermission(RoutePermission[route], token)
    IN  AuthAnswered([op |-> route,
                      status |-> IF status = 0 THEN 200 ELSE status,
                      user |-> token],
                     auth.tokens)

NextAuth ==
    \/ /\ Len(bcodes.staff) < MaxStaff
       /\ \E code \in Codes : CreateStaff(code)
    \/ /\ Cardinality(auth.tokens) < MaxTokens
       /\ \E correct \in BOOLEAN : AdminLogin(correct)
    \/ /\ Cardinality(auth.tokens) < MaxTokens
       /\ \E id \in 1..MaxStaff, correct \in BOOLEAN : StaffLogin(id, correct)
    \/ \E token \in auth.tokens : TokenExpires(token)
    \/ \E id \in 1..MaxStaff, permissions \in PermissionBodies :
          UpdatePermissions(id, permissions)
    \/ \E id \in 1..MaxStaff, isActive \in BOOLEAN :
          UpdateStaffActive(id, isActive)
    \/ \E route \in DOMAIN RoutePermission,
          token \in auth.tokens \cup {Unverifiable} :
              GuardedRequest(route, token)

SpecAuth == Init /\ [][NextAuth]_vars

\* C39: a request of a staff member to a route guarded by
\* requirePermission(p) is answered 200 only while the member's row grants
\* p: once the admin has revoked p, every request of that member is denied,
\* whenever its token was issued.
RevocationDenies ==
    (/\ last.op \in DOMAIN RoutePermission
     /\ last.status = 200
     /\ last.user.role = "staff")
        => parsePermissions(auth.permissions[last.user.id])
               [RoutePermission[last.op]]

====
